---- MODULE Spec2Model ----
(***************************************************************************)
(* Model of the transactional array allocation protocol                    *)
(* (make_persistent / delete_persistent for arrays), of the transaction    *)
(* stage machine with its registered locks, of the pmem-resident           *)
(* shared_mutex and condition_variable, of the tagged pointer and its      *)
(* atomic specialization, and of the non-transactional allocation path     *)
(* (make_persistent_atomic / delete_persistent_atomic), of libpmemobj-cpp. *)
(*                                                                         *)
(* The specifications share the module's variables; each moves its own:    *)
(*   Spec       one thread running transactions and the allocation         *)
(*              protocol, plus an observer thread that try_locks the       *)
(*              registered locks;                                          *)
(*   FairTxSpec the transaction thread and the observer, with fairness;    *)
(*   SpecRW     threads using one shared_mutex;                            *)
(*   SpecCV     threads using one condition_variable with pmem mutexes;    *)
(*   SpecCtor   constructions of locks inside and outside open pools;      *)
(*   SpecTp     tagged pointers of one region, which can be relocated;     *)
(*   SpecAt     threads storing to and loading from one atomic tagged      *)
(*              pointer;                                                   *)
(*   SpecCas    threads loading and compare-and-swapping it;               *)
(*   FairSpecCV SpecCV with running threads;                               *)
(*   SpecWake   three threads with predicate waits and notifications;      *)
(*   FairSpecWake  SpecWake with running threads;                          *)
(*   SpecRecon  SpecRW with the lock's constructor run again;              *)
(*   SpecCaller the allocation protocol called with a pointer variable of  *)
(*              the caller;                                                *)
(*   SpecSize   the sizes of array requests, in machine words;             *)
(*   SpecMa     one thread using the non-transactional allocation path,    *)
(*              in and out of transactions, with crashes.                  *)
(***************************************************************************)
EXTENDS Integers, Sequences, FiniteSets, TLC

(***************************************************************************)
(* Bounds of the model.                                                    *)
(***************************************************************************)
\* largest element count N passed to make_persistent / delete_persistent
MaxN == 2
\* deepest nesting of transactions
MaxDepth == 2
\* last tick of the system clock
MaxTime == 2
\* number of bits of std::size_t and std::ptrdiff_t
WordBits == 6

(***************************************************************************)
(* Values.                                                                 *)
(***************************************************************************)
TX_STAGE_NONE == "TX_STAGE_NONE"
TX_STAGE_WORK == "TX_STAGE_WORK"
TX_STAGE_ONCOMMIT == "TX_STAGE_ONCOMMIT"
TX_STAGE_FINALLY == "TX_STAGE_FINALLY"
TX_STAGE_ONABORT == "TX_STAGE_ONABORT"
Stages ==
  {TX_STAGE_NONE, TX_STAGE_WORK, TX_STAGE_ONCOMMIT, TX_STAGE_FINALLY,
   TX_STAGE_ONABORT}

\* the null persistent_ptr, and the addresses the allocator can hand out
NullPtr == "nullptr"
Ptrs == {"p1", "p2"}

\* errno values left by a failed pmemobj_tx_xalloc
Errnos == {"ENOMEM", "EINVAL", "EIO"}

\* threads: TxThread runs transactions, Observer probes the registered locks
TxThread == "tx"
Observer == "obs"
RWThreads == {"t1", "t2", "t3"}
Threads == {TxThread, Observer} \cup RWThreads
NoThread == "nobody"

\* the pmem-resident shared_mutex objects
Locks == {"L1", "L2"}

\* threads using the condition variable, and the pmem-resident mutexes
CVThreads == {"w1", "w2"}
Mutexes == {"m1", "m2"}

\* the threads of the wakeup scenario: two may wait while a third notifies
WakeThreads == CVThreads \cup {"w3"}

VARIABLES
  stage,      \* pmemobj_tx_stage() of TxThread
  depth,      \* number of open (nested) transaction scopes of TxThread
  txLocks,    \* locks registered with the running transaction
  relCount,   \* per lock: releases by the transaction since it began
  pc,         \* position of TxThread inside the allocation protocol
  call,       \* the current / last call: function, N, ptr, loop index, errno
  events,     \* calls the current / last call made to its collaborators
  outcome,    \* how the last call ended, and the pointer it returned
  rwlock,     \* native PMEMrwlock state of every shared_mutex
  mode,       \* per thread and lock: what the thread holds through the API
  res,        \* per thread: result of its last shared_mutex call
  nat,        \* per thread: its last native rwlock call and the status
  mtx,        \* native PMEMmutex state: the owner of every pmem mutex
  waiters,    \* threads blocked on the condition variable's PMEMcond
  cv,         \* per thread: its position in a condition_variable call
  ready,      \* the shared state the wait predicates read
  now,        \* the system clock (condition_variable::clock_type)
  pools,      \* the pools that are open (mapped)
  handle,     \* per kind and address: the bytes of the native handle there
  ctor,       \* the last constructor call: kind, address, how it ended
  base,       \* the address the region (the pool's mapping) starts at
  word,       \* per tagged_ptr in the region: the word it stores
  from,       \* per tagged_ptr: what it was last built from
  slot,       \* the word stored in the atomic tagged_ptr
  gen,        \* how many times the atomic has been written
  wins,       \* <<g, t>>: a compare-and-swap of t succeeded on write g
  at,         \* per thread: its position in an operation on the atomic
  heap,       \* per address of the pool's heap: the allocator's state of it
  aptr,       \* the caller's persistent_ptr variable
  acall,      \* the current / last call of the non-transactional path
  aevents,    \* calls the current / last such call made to the allocator
  arr         \* an array request: element size, count, bytes, elements

vars ==
  <<stage, depth, txLocks, relCount, pc, call, events, outcome, rwlock, mode,
    res, nat, mtx, waiters, cv, ready, now, pools, handle, ctor,
    base, word, from, slot, gen, wins, at, heap, aptr, acall, aevents, arr>>

txVars == <<stage, depth, txLocks, relCount>>
callVars == <<pc, call, events, outcome>>
rwVars == <<rwlock, mode, res, nat>>
cvVars == <<mtx, waiters, cv, ready, now>>
ctorVars == <<pools, handle, ctor>>
tpVars == <<base, word, from>>
atVars == <<slot, gen, wins, at>>
maVars == <<aptr, acall, aevents>>
szVars == <<arr>>

\* what the actions of one part of the model leave alone
exceptCall ==
  <<txVars, rwVars, cvVars, ctorVars, tpVars, atVars,
    heap, maVars, szVars>>
exceptRW ==
  <<txVars, callVars, cvVars, ctorVars, tpVars, atVars,
    heap, maVars, szVars>>
exceptTxLock ==
  <<callVars, mode, res, nat, cvVars, ctorVars, tpVars, atVars,
    maVars, szVars>>
exceptCV ==
  <<txVars, callVars, rwVars, ctorVars, tpVars, atVars,
    heap, maVars, szVars>>
exceptCtor ==
  <<txVars, callVars, rwVars, cvVars, tpVars, atVars,
    heap, maVars, szVars>>
exceptTp ==
  <<txVars, callVars, rwVars, cvVars, ctorVars, atVars, heap, maVars, szVars>>
exceptAt ==
  <<txVars, callVars, rwVars, cvVars, ctorVars, tpVars, heap, maVars, szVars>>
exceptMa == <<callVars, rwVars, cvVars, ctorVars, tpVars, atVars, szVars>>
exceptSz ==
  <<txVars, callVars, rwVars, cvVars, ctorVars, tpVars, atVars, heap, maVars>>

(***************************************************************************)
(* Transactional array allocation: make_persistent<T[]>(N),                *)
(* make_persistent<T[N]>(), delete_persistent<T[]>(ptr, N),                *)
(* delete_persistent<T[N]>(ptr).  The two overloads of each function have  *)
(* the same body: each has its own entry, the steps are shared.            *)
(***************************************************************************)
Event(op, i, p) == [op |-> op, i |-> i, p |-> p]

NoCall == [fn |-> "none", N |-> 0, ptr |-> NullPtr, i |-> 0,
           stage |-> TX_STAGE_NONE, errno |-> "none", ret |-> "none"]
NoOutcome == [kind |-> "none", ptr |-> NullPtr]

\* if (pmemobj_tx_stage() != TX_STAGE_WORK) throw transaction_scope_error
mp_stage_ok(s) == s = TX_STAGE_WORK

\* a guard that only rejects "no transaction at all"
dp_stage_ok_not_none(s) == s # TX_STAGE_NONE

dp_stage_ok(s) == s = TX_STAGE_WORK

\* every allocation failure reported as the generic kind
alloc_failure_kind_generic(e) == "transaction_alloc_error"

\* if (errno == ENOMEM) transaction_out_of_memory else transaction_alloc_error
alloc_failure_kind(e) ==
  IF e = "ENOMEM" THEN "transaction_out_of_memory"
  ELSE "transaction_alloc_error"

\* constructors run from the last element down
mp_create_index_reverse(n, i) == n - 1 - i

\* detail::create<I>(data + i)
mp_create_index(n, i) == i

\* destructors run from the first element up
dp_destroy_index_forward(n, i) == i

\* detail::destroy<I>(data[N - 1 - i])
dp_destroy_index(n, i) == n - 1 - i

\* entry of make_persistent<T[]>(N): the arguments are bound, nothing has
\* run yet; call.stage remembers the stage the call was made in
make_persistent(n) ==
  /\ pc = "idle"
  /\ pc' = "mp_stage"
  /\ call' = [fn |-> "make_persistent", N |-> n, ptr |-> NullPtr, i |-> 0,
              stage |-> stage, errno |-> "none", ret |-> "none"]
  /\ events' = <<>>
  /\ outcome' = NoOutcome
  /\ UNCHANGED exceptCall

\* entry of make_persistent<T[N]>(): N is the array type's element count
make_persistent_sized(n) == make_persistent(n)

\* the stage check at the top of make_persistent
mp_check_stage ==
  /\ pc = "mp_stage"
  /\ IF mp_stage_ok(stage)
     THEN /\ pc' = "mp_xalloc"
          /\ UNCHANGED outcome
     ELSE /\ pc' = "idle"
          /\ outcome' = [kind |-> "transaction_scope_error", ptr |-> NullPtr]
  /\ UNCHANGED <<call, events, exceptCall>>

\* ptr = pmemobj_tx_xalloc(sizeof(I) * N, ...); the null check after it
mp_xalloc ==
  /\ pc = "mp_xalloc"
  /\ events' = Append(events, Event("pmemobj_tx_xalloc", call.N, NullPtr))
  /\ \E p \in Ptrs \cup {NullPtr}, e \in Errnos :
       IF p = NullPtr
       THEN /\ pc' = "idle"
            /\ outcome' = [kind |-> alloc_failure_kind(e), ptr |-> NullPtr]
            /\ call' = [call EXCEPT !.errno = e]
       ELSE /\ pc' = "mp_create"
            /\ call' = [call EXCEPT !.ptr = p, !.i = 0]
            /\ UNCHANGED outcome
  /\ UNCHANGED exceptCall

\* a constructor loop that cleans up as new[] does: when a constructor
\* throws, the elements built so far are destroyed, last first
RECURSIVE DestroyBack(_, _, _)
DestroyBack(ev, k, p) ==
  IF k = 0 THEN ev
  ELSE DestroyBack(Append(ev, Event("destroy", k - 1, p)), k - 1, p)

mp_create_with_cleanup ==
  /\ pc = "mp_create"
  /\ IF call.i < call.N
     THEN \E ok \in BOOLEAN :
            IF ok
            THEN /\ events' = Append(events,
                      Event("create", call.i, call.ptr))
                 /\ call' = [call EXCEPT !.i = call.i + 1]
                 /\ UNCHANGED <<pc, outcome>>
            ELSE /\ events' = DestroyBack(
                      Append(events, Event("create_throws", call.i, call.ptr)),
                      call.i, call.ptr)
                 /\ pc' = "idle"
                 /\ outcome' = [kind |-> "constructor_exception",
                                ptr |-> NullPtr]
                 /\ UNCHANGED call
     ELSE /\ pc' = "idle"
          /\ outcome' = [kind |-> "returned", ptr |-> call.ptr]
          /\ UNCHANGED <<call, events>>
  /\ UNCHANGED exceptCall

\* one turn of the constructor loop, and the return after the last turn
mp_create ==
  /\ pc = "mp_create"
  /\ IF call.i < call.N
     THEN \E ok \in BOOLEAN :
            /\ events' = Append(events,
                 Event(IF ok THEN "create" ELSE "create_throws",
                       mp_create_index(call.N, call.i), call.ptr))
            /\ IF ok
               THEN /\ call' = [call EXCEPT !.i = call.i + 1]
                    /\ UNCHANGED <<pc, outcome>>
               ELSE /\ pc' = "idle"
                    /\ outcome' = [kind |-> "constructor_exception",
                                   ptr |-> NullPtr]
                    /\ UNCHANGED call
     ELSE /\ pc' = "idle"
          /\ outcome' = [kind |-> "returned", ptr |-> call.ptr]
          /\ UNCHANGED <<call, events>>
  /\ UNCHANGED exceptCall

\* entry of delete_persistent<T[]>(ptr, N)
delete_persistent(p, n) ==
  /\ pc = "idle"
  /\ pc' = "dp_stage"
  /\ call' = [fn |-> "delete_persistent", N |-> n, ptr |-> p, i |-> 0,
              stage |-> stage, errno |-> "none", ret |-> "none"]
  /\ events' = <<>>
  /\ outcome' = NoOutcome
  /\ UNCHANGED exceptCall

\* entry of delete_persistent<T[N]>(ptr)
delete_persistent_sized(p, n) == delete_persistent(p, n)

\* a delete_persistent without the null check
dp_check_stage_no_null_check ==
  /\ pc = "dp_stage"
  /\ IF ~dp_stage_ok(stage)
     THEN /\ pc' = "idle"
          /\ outcome' = [kind |-> "transaction_scope_error", ptr |-> NullPtr]
     ELSE /\ pc' = "dp_destroy"
          /\ UNCHANGED outcome
  /\ UNCHANGED <<call, events, exceptCall>>

\* the stage check, then the null check, at the top of delete_persistent
dp_check_stage ==
  /\ pc = "dp_stage"
  /\ IF ~dp_stage_ok(stage)
     THEN /\ pc' = "idle"
          /\ outcome' = [kind |-> "transaction_scope_error", ptr |-> NullPtr]
     ELSE IF call.ptr = NullPtr
          THEN /\ pc' = "idle"
               /\ outcome' = [kind |-> "returned", ptr |-> NullPtr]
          ELSE /\ pc' = "dp_destroy"
               /\ UNCHANGED outcome
  /\ UNCHANGED <<call, events, exceptCall>>

\* one turn of the destructor loop
dp_destroy ==
  /\ pc = "dp_destroy"
  /\ IF call.i < call.N
     THEN /\ events' = Append(events,
               Event("destroy", dp_destroy_index(call.N, call.i), call.ptr))
          /\ call' = [call EXCEPT !.i = call.i + 1]
          /\ UNCHANGED pc
     ELSE /\ pc' = "dp_free"
          /\ UNCHANGED <<call, events>>
  /\ UNCHANGED <<outcome, exceptCall>>

\* a delete_persistent that returns whatever pmemobj_tx_free reports
dp_free_outcome_swallowed(ret) == "returned"

\* if (pmemobj_tx_free(...) != 0) throw transaction_free_error
dp_free_outcome(ret) ==
  IF ret # "ok" THEN "transaction_free_error" ELSE "returned"

\* a delete_persistent that clears the pointer it was called with
dp_free_nulls_pointer ==
  /\ pc = "dp_free"
  /\ events' = Append(events, Event("pmemobj_tx_free", 0, call.ptr))
  /\ \E ret \in {"ok", "fail"} :
       /\ outcome' = [kind |-> dp_free_outcome(ret), ptr |-> NullPtr]
       /\ call' = [call EXCEPT !.ret = ret]
  /\ pc' = "idle"
  /\ aptr' = NullPtr
  /\ UNCHANGED <<txVars, rwVars, cvVars, ctorVars, tpVars, atVars, heap,
                 acall, aevents, szVars>>

\* pmemobj_tx_free(*ptr.raw_ptr()), whose status call.ret keeps, and the
\* test of that status
dp_free ==
  /\ pc = "dp_free"
  /\ events' = Append(events, Event("pmemobj_tx_free", 0, call.ptr))
  /\ \E ret \in {"ok", "fail"} :
       /\ outcome' = [kind |-> dp_free_outcome(ret), ptr |-> NullPtr]
       /\ call' = [call EXCEPT !.ret = ret]
  /\ pc' = "idle"
  /\ UNCHANGED exceptCall

\* the caller keeps the pointer make_persistent returned in its variable
caller_keep ==
  /\ pc = "idle"
  /\ call.fn = "make_persistent"
  /\ outcome.kind = "returned"
  /\ aptr # outcome.ptr
  /\ aptr' = outcome.ptr
  /\ UNCHANGED <<acall, aevents, heap, txVars, exceptMa>>

\* the caller passes its variable to delete_persistent<T[]>(ptr, N): the
\* parameter is a persistent_ptr taken by value
caller_delete(n) == delete_persistent(aptr, n)

\* the same with delete_persistent<T[N]>(ptr)
caller_delete_sized(n) == delete_persistent_sized(aptr, n)

\* the caller sets its variable to null
caller_reset ==
  /\ pc = "idle"
  /\ aptr # NullPtr
  /\ aptr' = NullPtr
  /\ UNCHANGED <<acall, aevents, heap, txVars, exceptMa>>

CallerStep ==
  \/ \E n \in 0..MaxN : make_persistent(n)
  \/ \E n \in 1..MaxN : make_persistent_sized(n)
  \/ mp_check_stage
  \/ mp_xalloc
  \/ mp_create
  \/ caller_keep
  \/ \E n \in 0..MaxN : caller_delete(n)
  \/ \E n \in 1..MaxN : caller_delete_sized(n)
  \/ dp_check_stage
  \/ dp_destroy
  \/ dp_free
  \/ caller_reset

AllocStep ==
  \/ \E n \in 0..MaxN : make_persistent(n)
  \/ \E n \in 1..MaxN : make_persistent_sized(n)
  \/ mp_check_stage
  \/ mp_xalloc
  \/ mp_create
  \/ \E p \in Ptrs \cup {NullPtr}, n \in 0..MaxN : delete_persistent(p, n)
  \/ \E p \in Ptrs \cup {NullPtr}, n \in 1..MaxN :
       delete_persistent_sized(p, n)
  \/ dp_check_stage
  \/ dp_destroy
  \/ dp_free

(***************************************************************************)
(* The native PMEMrwlock behind a shared_mutex: one writer or any number   *)
(* of readers.  ret is the native status: "0" success, "EBUSY" would       *)
(* block (try variants only), anything else a fault.                       *)
(***************************************************************************)
LockFree == [writer |-> NoThread, readers |-> {}]

CanWrlock(s) == s.writer = NoThread /\ s.readers = {}

CanRdlock(s) == s.writer = NoThread

\* the native call a thread made last, with the status it returned
NoNative == [fn |-> "none", ret |-> "none"]

SetNat(t, fn, ret) == nat' = [nat EXCEPT ![t] = [fn |-> fn, ret |-> ret]]

\* blocks until the lock can be taken for writing, then takes it
pmemobj_rwlock_wrlock(l, t, ret) ==
  /\ SetNat(t, "pmemobj_rwlock_wrlock", ret)
  /\ IF ret = "0"
     THEN /\ CanWrlock(rwlock[l])
          /\ rwlock' = [rwlock EXCEPT ![l].writer = t]
     ELSE rwlock' = rwlock

\* blocks until no writer holds the lock, then adds a reader
pmemobj_rwlock_rdlock(l, t, ret) ==
  /\ SetNat(t, "pmemobj_rwlock_rdlock", ret)
  /\ IF ret = "0"
     THEN /\ CanRdlock(rwlock[l])
          /\ rwlock' = [rwlock EXCEPT ![l].readers = @ \cup {t}]
     ELSE rwlock' = rwlock

\* never blocks: "0" when taken, "EBUSY" when it would block
pmemobj_rwlock_trywrlock(l, t, ret) ==
  /\ SetNat(t, "pmemobj_rwlock_trywrlock", ret)
  /\ CASE ret = "0" -> /\ CanWrlock(rwlock[l])
                       /\ rwlock' = [rwlock EXCEPT ![l].writer = t]
       [] ret = "EBUSY" -> /\ ~CanWrlock(rwlock[l])
                           /\ rwlock' = rwlock
       [] OTHER -> rwlock' = rwlock

pmemobj_rwlock_tryrdlock(l, t, ret) ==
  /\ SetNat(t, "pmemobj_rwlock_tryrdlock", ret)
  /\ CASE ret = "0" -> /\ CanRdlock(rwlock[l])
                       /\ rwlock' = [rwlock EXCEPT ![l].readers = @ \cup {t}]
       [] ret = "EBUSY" -> /\ ~CanRdlock(rwlock[l])
                           /\ rwlock' = rwlock
       [] OTHER -> rwlock' = rwlock

\* releases whatever hold (write or read) the calling thread has
pmemobj_rwlock_unlock(l, t, ret) ==
  /\ SetNat(t, "pmemobj_rwlock_unlock", ret)
  /\ IF ret = "0"
     THEN rwlock' = [rwlock EXCEPT
                       ![l].writer = IF @ = t THEN NoThread ELSE @,
                       ![l].readers = @ \ {t}]
     ELSE rwlock' = rwlock

(***************************************************************************)
(* pmem::obj::shared_mutex.  The caller contract (no re-acquisition, only  *)
(* unlock what is held) is the guard on mode; breaking it is undefined.    *)
(***************************************************************************)
LockRets == {"0", "EINVAL"}
TryRets == {"0", "EBUSY", "EINVAL"}

SetMode(t, l, m) == mode' = [mode EXCEPT ![t][l] = m]

SetRes(t, r) == res' = [res EXCEPT ![t] = r]

\* a shared_mutex with lock() going through the read-lock primitive
shared_mutex_lock_via_rdlock(t, l) ==
  /\ mode[t][l] = "none"
  /\ \E ret \in LockRets :
       /\ pmemobj_rwlock_rdlock(l, t, ret)
       /\ IF ret = "0"
          THEN SetMode(t, l, "exclusive") /\ SetRes(t, "returned")
          ELSE UNCHANGED mode /\ SetRes(t, "lock_error")
  /\ UNCHANGED exceptRW

shared_mutex_lock(t, l) ==
  /\ mode[t][l] = "none"
  /\ \E ret \in LockRets :
       /\ pmemobj_rwlock_wrlock(l, t, ret)
       /\ IF ret = "0"
          THEN SetMode(t, l, "exclusive") /\ SetRes(t, "returned")
          ELSE UNCHANGED mode /\ SetRes(t, "lock_error")
  /\ UNCHANGED exceptRW

shared_mutex_lock_shared(t, l) ==
  /\ mode[t][l] = "none"
  /\ \E ret \in LockRets :
       /\ pmemobj_rwlock_rdlock(l, t, ret)
       /\ IF ret = "0"
          THEN SetMode(t, l, "shared") /\ SetRes(t, "returned")
          ELSE UNCHANGED mode /\ SetRes(t, "lock_error")
  /\ UNCHANGED exceptRW

\* try_lock() throwing for every status other than 0, as lock() does
shared_mutex_try_lock_throws_on_busy(t, l) ==
  /\ mode[t][l] = "none"
  /\ \E ret \in TryRets :
       /\ pmemobj_rwlock_trywrlock(l, t, ret)
       /\ IF ret = "0"
          THEN SetMode(t, l, "exclusive") /\ SetRes(t, "true")
          ELSE UNCHANGED mode /\ SetRes(t, "lock_error")
  /\ UNCHANGED exceptRW

shared_mutex_try_lock(t, l) ==
  /\ mode[t][l] = "none"
  /\ \E ret \in TryRets :
       /\ pmemobj_rwlock_trywrlock(l, t, ret)
       /\ CASE ret = "0" -> SetMode(t, l, "exclusive") /\ SetRes(t, "true")
            [] ret = "EBUSY" -> UNCHANGED mode /\ SetRes(t, "false")
            [] OTHER -> UNCHANGED mode /\ SetRes(t, "lock_error")
  /\ UNCHANGED exceptRW

shared_mutex_try_lock_shared(t, l) ==
  /\ mode[t][l] = "none"
  /\ \E ret \in TryRets :
       /\ pmemobj_rwlock_tryrdlock(l, t, ret)
       /\ CASE ret = "0" -> SetMode(t, l, "shared") /\ SetRes(t, "true")
            [] ret = "EBUSY" -> UNCHANGED mode /\ SetRes(t, "false")
            [] OTHER -> UNCHANGED mode /\ SetRes(t, "lock_error")
  /\ UNCHANGED exceptRW

\* unlock(): the body shared by unlock() and unlock_shared()
shared_mutex_unlock_body(t, l) ==
  /\ \E ret \in LockRets :
       /\ pmemobj_rwlock_unlock(l, t, ret)
       /\ IF ret = "0"
          THEN SetMode(t, l, "none") /\ SetRes(t, "returned")
          ELSE UNCHANGED mode /\ SetRes(t, "lock_error")
  /\ UNCHANGED exceptRW

shared_mutex_unlock(t, l) ==
  /\ mode[t][l] = "exclusive"
  /\ shared_mutex_unlock_body(t, l)

\* unlock_shared() { this->unlock(); }
shared_mutex_unlock_shared(t, l) ==
  /\ mode[t][l] = "shared"
  /\ shared_mutex_unlock_body(t, l)

\* a shared_mutex that reports itself as a plain mutex
lock_type_mutex(l) == "TX_PARAM_MUTEX"

\* the lock kind a shared_mutex reports to the transaction API
lock_type(l) == "TX_PARAM_RWLOCK"

(***************************************************************************)
(* The transaction stage machine of TxThread and the locks registered      *)
(* with it.  Nested transactions are flattened: an inner scope shares the  *)
(* stage and the lock list of the outermost one.  A registered lock is     *)
(* taken, and later released, through the native primitive its             *)
(* lock_type() names; driving a PMEMrwlock through the primitives of any   *)
(* other kind is undefined (took / gave: either outcome).                  *)
(***************************************************************************)
Registered == {l \in Locks : txLocks[l] > 0}

tx_lock_acquire(l, s, took) ==
  IF lock_type(l) = "TX_PARAM_RWLOCK" \/ took
  THEN [s EXCEPT !.writer = TxThread]
  ELSE s

tx_lock_release(l, s, gave) ==
  IF lock_type(l) = "TX_PARAM_RWLOCK" \/ gave
  THEN [s EXCEPT !.writer = IF @ = TxThread THEN NoThread ELSE @]
  ELSE s

\* every registered lock is released, once, by the stage machine
release_tx_locks ==
  /\ \E gave \in [Locks -> BOOLEAN] :
       rwlock' = [l \in Locks |->
                    IF l \in Registered
                    THEN tx_lock_release(l, rwlock[l], gave[l])
                    ELSE rwlock[l]]
  /\ relCount' = [l \in Locks |->
                    IF l \in Registered THEN relCount[l] + 1
                    ELSE relCount[l]]

\* a transaction scope is entered with the locks ls: NONE -> WORK for the
\* outermost scope, WORK -> WORK for a nested one; locks already registered
\* are not taken again; blocks while another thread holds one of the new locks
\* a block of the heap nobody has allocated
FreeBlock == [st |-> "free", obj |-> "none", tx |-> FALSE]

\* the rollback discards every allocation made in the transaction
tx_rollback(h) == [p \in Ptrs |-> IF h[p].tx THEN FreeBlock ELSE h[p]]

\* the commit makes them permanent
tx_keep(h) == [p \in Ptrs |-> [h[p] EXCEPT !.tx = FALSE]]

tx_begin(ls) ==
  /\ pc = "idle"
  /\ stage \in {TX_STAGE_NONE, TX_STAGE_WORK}
  /\ depth < MaxDepth
  /\ LET old == IF stage = TX_STAGE_NONE THEN {} ELSE Registered
         new == ls \ old
     IN /\ \A l \in new : CanWrlock(rwlock[l])
        /\ \E took \in [Locks -> BOOLEAN] :
             rwlock' = [l \in Locks |->
                          IF l \in new
                          THEN tx_lock_acquire(l, rwlock[l], took[l])
                          ELSE rwlock[l]]
        /\ txLocks' = [l \in Locks |->
                         IF l \in new THEN depth + 1
                         ELSE IF l \in old THEN txLocks[l] ELSE 0]
        /\ relCount' = [l \in Locks |->
                          IF l \in old THEN relCount[l] ELSE 0]
  /\ stage' = TX_STAGE_WORK
  /\ depth' = depth + 1
  /\ UNCHANGED <<heap, exceptTxLock>>

\* the end of a scope whose work succeeded: an inner scope merges into the
\* enclosing one, the outermost scope commits and the locks are released
tx_commit ==
  /\ pc = "idle"
  /\ stage = TX_STAGE_WORK
  /\ IF depth > 1
     THEN /\ depth' = depth - 1
          /\ UNCHANGED <<stage, txLocks, relCount, rwlock, heap>>
     ELSE /\ stage' = TX_STAGE_ONCOMMIT
          /\ release_tx_locks
          /\ heap' = tx_keep(heap)
          /\ UNCHANGED <<depth, txLocks>>
  /\ UNCHANGED exceptTxLock

\* an abort raised at any nesting level (an explicit abort, or a failure
\* that reaches the transaction boundary): WORK -> ONABORT, locks released
tx_abort ==
  /\ pc = "idle"
  /\ stage = TX_STAGE_WORK
  /\ stage' = TX_STAGE_ONABORT
  /\ release_tx_locks
  /\ heap' = tx_rollback(heap)
  /\ UNCHANGED <<depth, txLocks, exceptTxLock>>

\* a scope is left after the work stage: an inner scope hands ONABORT to
\* the enclosing scope; the outermost goes to FINALLY and then to NONE
tx_end ==
  /\ pc = "idle"
  /\ \/ /\ stage = TX_STAGE_ONABORT
        /\ depth > 1
        /\ depth' = depth - 1
        /\ UNCHANGED stage
     \/ /\ stage \in {TX_STAGE_ONCOMMIT, TX_STAGE_ONABORT}
        /\ depth = 1
        /\ stage' = TX_STAGE_FINALLY
        /\ UNCHANGED depth
     \/ /\ stage = TX_STAGE_FINALLY
        /\ stage' = TX_STAGE_NONE
        /\ depth' = 0
  /\ UNCHANGED <<txLocks, relCount, rwlock, heap, exceptTxLock>>

TxStep ==
  \/ \E ls \in SUBSET Locks : tx_begin(ls)
  \/ tx_commit
  \/ tx_abort
  \/ tx_end

\* the observer thread probes the locks and gives back what it got
ObserverStep ==
  \/ \E l \in Locks : shared_mutex_try_lock(Observer, l)
  \/ \E l \in Locks : shared_mutex_unlock(Observer, l)

(***************************************************************************)
(* pmem::obj::condition_variable, used with the pmem mutex TheMutex.       *)
(* The native PMEMcond and PMEMmutex follow the POSIX contract: a wait     *)
(* releases the mutex it is handed and blocks in one atomic step, may      *)
(* wake by a notification, spuriously or (timed) at its deadline, and      *)
(* takes the mutex again before it returns.                                *)
(*                                                                         *)
(* cv[t].pc: "out"  the thread does not hold the mutex                     *)
(*           "in"   it holds the mutex, outside any wait call              *)
(*           "pred" inside a predicate wait, about to evaluate pred()      *)
(*           "enter" about to make the native wait call                    *)
(*           "suspended" blocked in the native wait                        *)
(*           "woken" woken in the native wait, taking the mutex again      *)
(***************************************************************************)
TheMutex == "m1"

OtherMutex(m) == CHOOSE x \in Mutexes : x # m

\* the caller's Clock::now() minus clock_type::now()
ClockOffsets == {0, 2}

\* how far from the caller's "now" a deadline is set: past or future
Deltas == {-1, 1}

TimedFns == {"wait_until", "wait_until_pred", "wait_for", "wait_for_pred"}
PredFns == {"wait_pred", "wait_until_pred", "wait_for_pred"}

CvState(p, r) ==
  [pc |-> p, fn |-> "none", abs |-> 0, off |-> 0, h |-> "none", ts |-> 0,
   ret |-> "0", res |-> r]

\* pmem::obj::mutex::lock / unlock on TheMutex
mutex_lock(t) ==
  /\ cv[t].pc = "out"
  /\ mtx[TheMutex] = NoThread
  /\ mtx' = [mtx EXCEPT ![TheMutex] = t]
  /\ cv' = [cv EXCEPT ![t] = CvState("in", "none")]
  /\ UNCHANGED <<waiters, ready, now, exceptCV>>

mutex_unlock(t) ==
  /\ cv[t].pc = "in"
  /\ mtx' = [mtx EXCEPT ![TheMutex] = NoThread]
  /\ cv' = [cv EXCEPT ![t] = CvState("out", "none")]
  /\ UNCHANGED <<waiters, ready, now, exceptCV>>

\* the holder of the mutex changes the state the predicates read
set_ready(t) ==
  /\ cv[t].pc = "in"
  /\ ready' = ~ready
  /\ UNCHANGED <<mtx, waiters, cv, now, exceptCV>>

\* time passes
Tick ==
  /\ now < MaxTime
  /\ now' = now + 1
  /\ UNCHANGED <<mtx, waiters, cv, ready, exceptCV>>

Wake(w, ret) == [cv[w] EXCEPT !.pc = "woken", !.ret = ret]

\* notify_one(): pmemobj_cond_signal wakes one waiter, if there is any
notify_one(t) ==
  /\ cv[t].pc \in {"out", "in"}
  /\ \E ret \in LockRets :
       IF ret # "0"
       THEN /\ cv' = [cv EXCEPT ![t].res = "lock_error"]
            /\ UNCHANGED waiters
       ELSE IF waiters = {}
            THEN /\ cv' = [cv EXCEPT ![t].res = "notified"]
                 /\ UNCHANGED waiters
            ELSE \E w \in waiters :
                   /\ waiters' = waiters \ {w}
                   /\ cv' = [cv EXCEPT ![w] = Wake(w, "0"),
                                       ![t].res = "notified"]
  /\ UNCHANGED <<mtx, ready, now, exceptCV>>

\* notify_all() whose broadcast wakes one waiter only
notify_all_wakes_one(t) == notify_one(t)

\* notify_all(): pmemobj_cond_broadcast wakes every waiter
notify_all(t) ==
  /\ cv[t].pc \in {"out", "in"}
  /\ \E ret \in LockRets :
       IF ret # "0"
       THEN /\ cv' = [cv EXCEPT ![t].res = "lock_error"]
            /\ UNCHANGED waiters
       ELSE /\ waiters' = {}
            /\ cv' = [w \in DOMAIN cv |->
                        IF w \in waiters THEN Wake(w, "0")
                        ELSE IF w = t THEN [cv[w] EXCEPT !.res = "notified"]
                        ELSE cv[w]]
  /\ UNCHANGED <<mtx, ready, now, exceptCV>>

\* the six wait variants: each is entered holding the mutex
EnterWait(t, fn, abs, off) ==
  /\ cv[t].pc = "in"
  /\ cv' = [cv EXCEPT ![t] =
              [pc |-> IF fn \in PredFns THEN "pred" ELSE "enter", fn |-> fn,
               abs |-> abs, off |-> off, h |-> "none", ts |-> 0, ret |-> "0",
               res |-> "none"]]
  /\ UNCHANGED <<mtx, waiters, ready, now, exceptCV>>

\* wait(lock) { wait_impl(lock); }
wait(t) == EnterWait(t, "wait", 0, 0)

\* wait(lock, pred) { wait_impl(lock, pred); }
wait_pred(t) == EnterWait(t, "wait_pred", 0, 0)

\* wait_until(lock, timeout): the deadline is on the caller's clock
wait_until(t, off, d) == EnterWait(t, "wait_until", now + off + d, off)

wait_until_pred(t, off, d) ==
  EnterWait(t, "wait_until_pred", now + off + d, off)

\* wait_for(lock, rel_time): wait_until_impl(lock, clock_type::now() + rel)
wait_for(t, d) == EnterWait(t, "wait_for", now + d, 0)

wait_for_pred(t, d) == EnterWait(t, "wait_for_pred", now + d, 0)

\* while (!pred()) ... ; return true: the test of the loop
pred_check(t) ==
  /\ cv[t].pc = "pred"
  /\ IF ready
     THEN cv' = [cv EXCEPT ![t] =
                   CvState("in", IF cv[t].fn = "wait_pred" THEN "returned"
                                 ELSE "true")]
     ELSE cv' = [cv EXCEPT ![t].pc = "enter"]
  /\ UNCHANGED <<mtx, waiters, ready, now, exceptCV>>

\* the handle of some other mutex than the caller's
wait_impl_mutex_other(lock) == OtherMutex(lock)

\* the mutex handed to pmemobj_cond_wait: lock.native_handle()
wait_impl_mutex(lock) == lock

\* the mutex handed to pmemobj_cond_timedwait: lock.native_handle()
wait_until_impl_mutex(lock) == lock

\* the caller's deadline handed to the native wait as it is
my_rel_unconverted(abs, off) == abs

\* a deadline that starts again, one tick ahead, at every native wait
my_rel_restarted(abs, off) == now + 1

\* wait_until_impl: the deadline moved to the system clock
\*   their_now = Clock::now(); my_now = clock_type::now();
\*   delta = abs_timeout - their_now; my_rel = my_now + delta
my_rel(abs, off) ==
  LET their_now == now + off
      my_now == now
      delta == abs - their_now
  IN my_now + delta

\* pmemobj_cond_timedwait: the system time equals or exceeds the deadline
timedwait_expired(ts) == now >= ts

\* the native wait is called: a fault is thrown as lock_error with the
\* mutex untouched; otherwise the mutex handed over is released and the
\* thread blocks, in one step; a timed wait whose deadline has passed
\* does not block: it releases the mutex, and takes it again to return
\* ETIMEDOUT
native_wait_enter(t) ==
  /\ cv[t].pc = "enter"
  /\ \E ret \in LockRets :
       IF ret # "0"
       THEN /\ cv' = [cv EXCEPT ![t] = CvState("in", "lock_error")]
            /\ UNCHANGED <<mtx, waiters>>
       ELSE LET h == IF cv[t].fn \in TimedFns
                     THEN wait_until_impl_mutex(TheMutex)
                     ELSE wait_impl_mutex(TheMutex)
                ts == IF cv[t].fn \in TimedFns
                      THEN my_rel(cv[t].abs, cv[t].off)
                      ELSE 0
            IN /\ mtx' = [mtx EXCEPT ![h] = IF @ = t THEN NoThread ELSE @]
               /\ IF cv[t].fn \in TimedFns /\ timedwait_expired(ts)
                  THEN /\ UNCHANGED waiters
                       /\ cv' = [cv EXCEPT
                                   ![t].pc = "woken", ![t].h = h,
                                   ![t].ts = ts, ![t].ret = "ETIMEDOUT"]
                  ELSE /\ waiters' = waiters \cup {t}
                       /\ cv' = [cv EXCEPT
                                   ![t].pc = "suspended", ![t].h = h,
                                   ![t].ts = ts]
  /\ UNCHANGED <<ready, now, exceptCV>>

\* a blocked thread wakes with no notification
spurious_wakeup(t) ==
  /\ cv[t].pc = "suspended"
  /\ waiters' = waiters \ {t}
  /\ cv' = [cv EXCEPT ![t] = Wake(t, "0")]
  /\ UNCHANGED <<mtx, ready, now, exceptCV>>

\* a thread blocked in a timed wait wakes because its deadline has passed
timeout_wakeup(t) ==
  /\ cv[t].pc = "suspended"
  /\ cv[t].fn \in TimedFns
  /\ timedwait_expired(cv[t].ts)
  /\ waiters' = waiters \ {t}
  /\ cv' = [cv EXCEPT ![t] = Wake(t, "ETIMEDOUT")]
  /\ UNCHANGED <<mtx, ready, now, exceptCV>>

\* wait_impl(lock, pred) with "if" for "while": returns after one wait
wait_impl_pred_once(st) == CvState("in", "returned")

\* while (!pred()) this->wait(lock): after the wait, the test again
wait_impl_pred_loop(st) == [st EXCEPT !.pc = "pred"]

\* wait_until_impl: ret == 0 is no_timeout, ret == ETIMEDOUT is timeout
cv_status(ret) == IF ret = "0" THEN "no_timeout" ELSE "timeout"

\* wait_until_impl(lock, t, pred) returning false whenever it timed out
wait_until_impl_pred_timeout_false(p) == "false"

\* if (wait_until_impl(lock, abs_timeout) == timeout) return pred();
wait_until_impl_pred_timeout(p) == IF p THEN "true" ELSE "false"

\* the native wait takes the mutex again and returns; what the variant
\* does with the status:
\*   wait_impl(lock)                 returns
\*   wait_impl(lock, pred)           tests the loop again
\*   wait_until_impl(lock, t)        returns no_timeout / timeout
\*   wait_until_impl(lock, t, pred)  on timeout returns pred(), otherwise
\*                                   tests the loop again
native_wait_return(t) ==
  /\ cv[t].pc = "woken"
  /\ mtx[cv[t].h] = NoThread
  /\ mtx' = [mtx EXCEPT ![cv[t].h] = t]
  /\ cv' = [cv EXCEPT ![t] =
       CASE cv[t].fn = "wait" -> CvState("in", "returned")
         [] cv[t].fn = "wait_pred" -> wait_impl_pred_loop(cv[t])
         [] cv[t].fn \in {"wait_until", "wait_for"} ->
              CvState("in", cv_status(cv[t].ret))
         [] OTHER ->
              IF cv_status(cv[t].ret) = "timeout"
              THEN CvState("in", wait_until_impl_pred_timeout(ready))
              ELSE [cv[t] EXCEPT !.pc = "pred"]]
  /\ UNCHANGED <<waiters, ready, now, exceptCV>>

CVStep ==
  \/ Tick
  \/ \E t \in CVThreads :
       \/ mutex_lock(t)
       \/ mutex_unlock(t)
       \/ set_ready(t)
       \/ notify_one(t)
       \/ notify_all(t)
       \/ wait(t)
       \/ wait_pred(t)
       \/ \E off \in ClockOffsets, d \in Deltas : wait_until(t, off, d)
       \/ \E off \in ClockOffsets, d \in Deltas : wait_until_pred(t, off, d)
       \/ \E d \in Deltas : wait_for(t, d)
       \/ \E d \in Deltas : wait_for_pred(t, d)
       \/ pred_check(t)
       \/ native_wait_enter(t)
       \/ spurious_wakeup(t)
       \/ timeout_wakeup(t)
       \/ native_wait_return(t)

(***************************************************************************)
(* Construction of a shared_mutex / condition_variable at an address.      *)
(* Before construction the bytes of the native handle are arbitrary        *)
(* ("garbage"); the constructor zeroes them if the address lies in an open *)
(* pool.                                                                   *)
(***************************************************************************)
Pools == {"pool1", "pool2"}
NoPool == "nullptr"

\* storage addresses: in the mapping of pool1, of pool2, and in no pool's
Addresses == {"a1", "a2", "s1"}
Kinds == {"shared_mutex", "condition_variable"}

MappedIn(a) ==
  CASE a = "a1" -> "pool1"
    [] a = "a2" -> "pool2"
    [] OTHER -> NoPool

\* the pool whose open mapping holds the address, or nullptr
pmemobj_pool_by_ptr(a) == IF MappedIn(a) \in pools THEN MappedIn(a) ELSE NoPool

NoCtor == [kind |-> "none", addr |-> "none", res |-> "none"]

pool_open(q) ==
  /\ q \notin pools
  /\ pools' = pools \cup {q}
  /\ UNCHANGED <<handle, ctor, exceptCtor>>

pool_close(q) ==
  /\ q \in pools
  /\ pools' = pools \ {q}
  /\ UNCHANGED <<handle, ctor, exceptCtor>>

\* the storage is written by something else: the handle's bytes are
\* arbitrary again
scribble(k, a) ==
  /\ handle[k][a] = "zeroed"
  /\ handle' = [handle EXCEPT ![k][a] = "garbage"]
  /\ UNCHANGED <<pools, ctor, exceptCtor>>

\* pmemobj_rwlock_zero / pmemobj_cond_zero
native_zero(k, a) == handle' = [handle EXCEPT ![k][a] = "zeroed"]

\* a constructor that zeroes the handle before it looks for the pool
ctor_zero_first(k, a) ==
  /\ native_zero(k, a)
  /\ ctor' = [kind |-> k, addr |-> a,
              res |-> IF pmemobj_pool_by_ptr(a) = NoPool THEN "lock_error"
                      ELSE "constructed"]
  /\ UNCHANGED <<pools, exceptCtor>>

\* if ((pop = pmemobj_pool_by_ptr(&handle)) == nullptr) throw lock_error;
\* pmemobj_*_zero(pop, &handle);
ctor_body(k, a) ==
  /\ IF pmemobj_pool_by_ptr(a) = NoPool
     THEN /\ ctor' = [kind |-> k, addr |-> a, res |-> "lock_error"]
          /\ UNCHANGED handle
     ELSE /\ native_zero(k, a)
          /\ ctor' = [kind |-> k, addr |-> a, res |-> "constructed"]
  /\ UNCHANGED <<pools, exceptCtor>>

shared_mutex_ctor(a) == ctor_body("shared_mutex", a)

\* the shared_mutex constructor run again over the lock l, which lies in an
\* open pool and may be in use: pmemobj_pool_by_ptr(&plock) finds the pool
\* and pmemobj_rwlock_zero(pop, &plock) zeroes the handle, holders included
shared_mutex_reconstruct(l) ==
  /\ rwlock' = [rwlock EXCEPT ![l] = LockFree]
  /\ UNCHANGED <<mode, res, nat, exceptRW>>

condition_variable_ctor(a) == ctor_body("condition_variable", a)

CtorStep ==
  \/ \E q \in Pools : pool_open(q)
  \/ \E q \in Pools : pool_close(q)
  \/ \E k \in Kinds, a \in Addresses : scribble(k, a)
  \/ \E a \in Addresses : shared_mutex_ctor(a)
  \/ \E a \in Addresses : condition_variable_ctor(a)

(***************************************************************************)
(* detail::tagged_ptr<P1, P2>: a self_relative_ptr<void> whose target's    *)
(* lowest bit tells a P1 target (bit set) from a P2 target.  Addresses are *)
(* integers; a tagged_ptr and its targets lie in one region, at fixed      *)
(* positions from the region's base.                                       *)
(***************************************************************************)
nullptr == 0

\* the offset a self_relative_ptr stores for null
nullptr_offset == 0

IS_TAGGED == 1

\* the addresses a region is mapped at
Bases == {32, 64, 96}

\* positions, from the base, of the tagged_ptr objects
CellPos == {0, 8}

\* positions of the P1 objects (all 2-byte aligned) and of the P2 objects
K1Pos == {16, 18}
K2Pos == {20, 21}

\* self_relative_ptr: the offset stored at address self for the target p
pointer_to_offset(self, p) ==
  IF p = nullptr THEN nullptr_offset ELSE p - self

\* self_relative_ptr: the target of the offset off stored at address self
offset_to_pointer(self, off) ==
  IF off = nullptr_offset THEN nullptr ELSE self + off

\* a tagged_ptr over a pointer type that stores the address itself
PointerType_raw == "raw_pointer"

\* tagged_ptr = tagged_ptr_impl<P1, P2, self_relative_ptr<void>>
PointerType == "self_relative_ptr"

\* PointerType ptr: the word stored at self for the address p, and back
ptr_encode(self, p) ==
  IF PointerType = "self_relative_ptr" THEN pointer_to_offset(self, p)
  ELSE p

ptr_decode(self, w) ==
  IF PointerType = "self_relative_ptr" THEN offset_to_pointer(self, w)
  ELSE w

\* ptr | IS_TAGGED, ptr & ~IS_TAGGED, value & IS_TAGGED on these addresses
BitOr(a, bit) == IF a % (2 * bit) >= bit THEN a ELSE a + bit
BitClear(a, bit) == IF a % (2 * bit) >= bit THEN a - bit ELSE a
BitTest(a, bit) == a % (2 * bit) >= bit

add_tag(p) == BitOr(p, IS_TAGGED)

\* a remove_tag that leaves the tag in
remove_tag_noop(p) == p

remove_tag(p) == BitClear(p, IS_TAGGED)

is_tagged_value(v) == BitTest(v, IS_TAGGED)

\* the tagged_ptr at position c of the region
to_void_pointer(c) == ptr_decode(base + c, word[c])

is_tagged(c) == is_tagged_value(to_void_pointer(c))

\* is<P1>() / is<P2>()
is_P1(c) == is_tagged(c)
is_P2(c) == ~is_tagged(c)

\* get<P1>() / get<P2>()
get_P1(c) == remove_tag(to_void_pointer(c))
get_P2(c) == to_void_pointer(c)

\* explicit operator bool()
operator_bool(c) == remove_tag(to_void_pointer(c)) # nullptr

\* operator==(const tagged_ptr_impl &rhs)
operator_eq(c, d) == to_void_pointer(c) = to_void_pointer(d)

\* operator==(const P1 *rhs): is_tagged() && get<P1>() == rhs
operator_eq_P1(c, rhs) == is_tagged(c) /\ get_P1(c) = rhs

\* operator!=(const P2 *rhs): !(*this == rhs).  The class has no
\* operator==(const P2 *); of its two operator== the one that takes a raw
\* pointer is operator==(const P1 *), so the body compiles only where a
\* const P2 * converts to a const P1 *, and is then its negation.
operator_ne_P2(c, rhs) == ~operator_eq_P1(c, rhs)

Built(kind, pos) == [kind |-> kind, pos |-> pos]

SetWord(c, p, kind, pos) ==
  /\ word' = [word EXCEPT ![c] = ptr_encode(base + c, p)]
  /\ from' = [from EXCEPT ![c] = Built(kind, pos)]
  /\ UNCHANGED <<base, exceptTp>>

\* tagged_ptr_impl() = default
tagged_ptr_default(c) == SetWord(c, nullptr, "default", 0)

\* a null tagged_ptr that carries the tag
from_nullptr_tagged == add_tag(nullptr)

\* tagged_ptr_impl(std::nullptr_t) : ptr(nullptr)
from_nullptr == nullptr

tagged_ptr_nullptr(c) == SetWord(c, from_nullptr, "nullptr", 0)

\* operator=(std::nullptr_t)
tagged_ptr_assign_nullptr(c) == tagged_ptr_nullptr(c)

\* tagged_ptr_impl(const persistent_ptr<P1> &ptr) : ptr(add_tag(ptr.get()))
tagged_ptr_P1(c, k) == SetWord(c, add_tag(base + k), "P1", k)

\* operator=(const persistent_ptr<P1> &rhs)
tagged_ptr_assign_P1(c, k) == tagged_ptr_P1(c, k)

\* the same from a null persistent_ptr<P1>: ptr.get() is nullptr
tagged_ptr_P1_null(c) == SetWord(c, add_tag(nullptr), "P1null", 0)

\* tagged_ptr_impl(const persistent_ptr<P2> &ptr) : ptr(ptr.get())
tagged_ptr_P2(c, k) == SetWord(c, base + k, "P2", k)

\* operator=(const persistent_ptr<P2> &rhs)
tagged_ptr_assign_P2(c, k) == tagged_ptr_P2(c, k)

\* the same from a null persistent_ptr<P2>
tagged_ptr_P2_null(c) == SetWord(c, nullptr, "P2null", 0)

\* copy construction / assignment of d from c: the pointer type's own
tagged_ptr_copy(c, d) ==
  /\ c # d
  /\ word' = [word EXCEPT ![d] = ptr_encode(base + d, to_void_pointer(c))]
  /\ from' = [from EXCEPT ![d] = from[c]]
  /\ UNCHANGED <<base, exceptTp>>

\* swap(rhs): ptr.swap(rhs.ptr)
tagged_ptr_swap(c, d) ==
  /\ c # d
  /\ word' = [word EXCEPT ![c] = ptr_encode(base + c, to_void_pointer(d)),
                          ![d] = ptr_encode(base + d, to_void_pointer(c))]
  /\ from' = [from EXCEPT ![c] = from[d], ![d] = from[c]]
  /\ UNCHANGED <<base, exceptTp>>

\* the whole region is copied, byte for byte, to the base b
relocate(b) ==
  /\ b # base
  /\ base' = b
  /\ UNCHANGED <<word, from, exceptTp>>

TpStep ==
  \/ \E c \in CellPos : tagged_ptr_default(c)
  \/ \E c \in CellPos : tagged_ptr_nullptr(c)
  \/ \E c \in CellPos : tagged_ptr_assign_nullptr(c)
  \/ \E c \in CellPos, k \in K1Pos : tagged_ptr_P1(c, k)
  \/ \E c \in CellPos, k \in K1Pos : tagged_ptr_assign_P1(c, k)
  \/ \E c \in CellPos, k \in K2Pos : tagged_ptr_P2(c, k)
  \/ \E c \in CellPos, k \in K2Pos : tagged_ptr_assign_P2(c, k)
  \/ \E c \in CellPos : tagged_ptr_P1_null(c)
  \/ \E c \in CellPos : tagged_ptr_P2_null(c)
  \/ \E c \in CellPos, d \in CellPos : tagged_ptr_copy(c, d)
  \/ \E c \in CellPos, d \in CellPos : tagged_ptr_swap(c, d)
  \/ \E b \in Bases : relocate(b)

(***************************************************************************)
(* std::atomic<detail::tagged_ptr<P1, P2>>: one atomic word in the region, *)
(* used by several threads.  It is not relocated while it is in use.       *)
(*                                                                         *)
(* at[t].pc: "idle"     outside any operation                              *)
(*           "storing"  in store(), annotation made, store to come         *)
(*           "loaded"   in load(), load made, annotation to come           *)
(* at[t].ann: the annotation made in the thread's current or last call     *)
(***************************************************************************)
AtThreads == {"c1", "c2", "c3"}

\* most writes of the atomic in a run
MaxGen == 2

\* position of the atomic in the region
SlotPos == 24

SlotAddr == base + SlotPos

\* the tagged_ptr values stored: null, a P1 target, a P2 target
AtVals == {nullptr, add_tag(base + 16), base + 20}

\* what the annotations name: the atomic member ptr of the object, or the
\* variable of a thread's call that holds the loaded value
MemberPtr == "this->ptr"
LocalPtr(t) == <<"ptr of load()", t>>

NoAnn == [kind |-> "none", addr |-> "none"]

AtIdle(seen, g, ann, last) ==
  [pc |-> "idle", seen |-> seen, g |-> g, des |-> nullptr, ann |-> ann,
   last |-> last]

slot_value == offset_to_pointer(SlotAddr, slot)

\* store(): LIBPMEMOBJ_CPP_ANNOTATE_HAPPENS_BEFORE(order, &ptr)
store_annotate(t, v) ==
  /\ at[t].pc = "idle"
  /\ gen < MaxGen
  /\ at' = [at EXCEPT ![t].pc = "storing", ![t].des = v,
                      ![t].ann = [kind |-> "happens_before",
                                  addr |-> MemberPtr]]
  /\ UNCHANGED <<slot, gen, wins, exceptAt>>

\* store(): ptr.store(desired, order)
store_word(t) ==
  /\ at[t].pc = "storing"
  /\ slot' = pointer_to_offset(SlotAddr, at[t].des)
  /\ gen' = gen + 1
  /\ at' = [at EXCEPT ![t] = AtIdle(at[t].seen, at[t].g, at[t].ann, "store")]
  /\ UNCHANGED <<wins, exceptAt>>

\* load(): auto ptr = this->ptr.load(order)
load_word(t) ==
  /\ at[t].pc = "idle"
  /\ at' = [at EXCEPT ![t].pc = "loaded", ![t].seen = slot_value,
                      ![t].g = gen, ![t].ann = NoAnn]
  /\ UNCHANGED <<slot, gen, wins, exceptAt>>

\* load(): in LIBPMEMOBJ_CPP_ANNOTATE_HAPPENS_AFTER(order, &ptr) the name
\* ptr is the variable declared the line before, which hides the member
load_annotated(t) == LocalPtr(t)

\* load(): the annotation, and return ptr
load_annotate(t) ==
  /\ at[t].pc = "loaded"
  /\ at' = [at EXCEPT ![t] =
              AtIdle(at[t].seen, at[t].g,
                     [kind |-> "happens_after", addr |-> load_annotated(t)],
                     "load")]
  /\ UNCHANGED <<slot, gen, wins, exceptAt>>

\* a compare-and-swap that compares with the caller's copy of the value
cas_compared_stale(t) == at[t].seen

\* what a compare-and-swap compares the expected value with: the word
cas_compared(t) == slot_value

\* compare_exchange_strong(expected, desired) with expected the value the
\* thread loaded last: one atomic step on the word; on failure expected
\* is set to the value found
compare_exchange(t, v) ==
  /\ at[t].pc = "idle"
  /\ at[t].last # "none"
  /\ gen < MaxGen \/ cas_compared(t) # at[t].seen
  /\ IF cas_compared(t) = at[t].seen
     THEN /\ slot' = pointer_to_offset(SlotAddr, v)
          /\ gen' = gen + 1
          /\ wins' = wins \cup {<<gen, t>>}
          /\ at' = [at EXCEPT ![t] =
                      AtIdle(at[t].seen, at[t].g, NoAnn, "cas_true")]
     ELSE /\ at' = [at EXCEPT ![t] =
                      AtIdle(slot_value, gen, NoAnn, "cas_false")]
          /\ UNCHANGED <<slot, gen, wins>>
  /\ UNCHANGED exceptAt

\* threads storing and loading
AtStep ==
  \E t \in AtThreads :
    \/ \E v \in AtVals : store_annotate(t, v)
    \/ store_word(t)
    \/ load_word(t)
    \/ load_annotate(t)

\* threads loading and compare-and-swapping
CasStep ==
  \E t \in AtThreads :
    \/ load_word(t)
    \/ load_annotate(t)
    \/ \E v \in AtVals : compare_exchange(t, v)

(***************************************************************************)
(* The size make_persistent<T[]>(N) asks the allocator for, and where the  *)
(* elements it constructs lie, with machine words of WordBits bits.        *)
(***************************************************************************)
\* std::numeric_limits<std::size_t>::max() + 1
SizeModulus == 2 ^ WordBits

\* std::numeric_limits<ptrdiff_t>::max()
PTRDIFF_MAX == 2 ^ (WordBits - 1) - 1

\* sizeof(I) of the element types
ElemSizes == {1, 2, 4, 8}

NoArray == [pc |-> "none", size |-> 1, N |-> 0, bytes |-> 0, i |-> 0]

\* sizeof(I) * N, in std::size_t
mp_alloc_size(sz, n) == (sz * n) % SizeModulus

\* make_persistent<T[]>(N) with sizeof(I) = sz, in stage WORK: N passes
\* assert(N <= ptrdiff_t max) and the size of the request is computed
mp_size_request(sz, n) ==
  /\ arr.pc \in {"none", "done"}
  /\ n <= PTRDIFF_MAX
  /\ arr' = [pc |-> "xalloc", size |-> sz, N |-> n,
             bytes |-> mp_alloc_size(sz, n), i |-> 0]
  /\ UNCHANGED exceptSz

\* pmemobj_tx_xalloc(sizeof(I) * N, ...): storage of that many bytes, or
\* a failure; a request for 0 bytes fails
mp_size_xalloc ==
  /\ arr.pc = "xalloc"
  /\ \E ok \in BOOLEAN :
       arr' = [arr EXCEPT !.pc = IF ok /\ arr.bytes > 0 THEN "create"
                                ELSE "done"]
  /\ UNCHANGED exceptSz

\* detail::create<I>(data + i) for i = 0 .. N - 1, then return
mp_size_create ==
  /\ arr.pc = "create"
  /\ IF arr.i < arr.N
     THEN arr' = [arr EXCEPT !.i = arr.i + 1]
     ELSE arr' = [arr EXCEPT !.pc = "done"]
  /\ UNCHANGED exceptSz

SizeStep ==
  \/ \E sz \in ElemSizes, n \in 0..PTRDIFF_MAX : mp_size_request(sz, n)
  \/ mp_size_xalloc
  \/ mp_size_create

(***************************************************************************)
(* The non-transactional path: make_persistent_atomic<T>(pool, ptr, ...)   *)
(* and delete_persistent_atomic<T>(ptr).  ptr is the caller's variable,    *)
(* passed by reference; the allocator writes it.  pmemobj_xalloc and       *)
(* pmemobj_free are the native allocator's: the allocation is taken in     *)
(* steps so that a crash can fall between them.                            *)
(***************************************************************************)
\* allocation_flag_atomic values
AtomicFlags == {"none", "zero"}

\* the blocks that are allocated
Allocated(h) == {p \in Ptrs : h[p].st = "allocated"}

NoAtomicCall ==
  [pc |-> "idle", fn |-> "none", stage |-> TX_STAGE_NONE, flag |-> "none",
   arg |-> NullPtr, used |-> {}, obj |-> NullPtr, ret |-> 0, res |-> "none"]

\* a make_persistent_atomic that refuses to run inside a transaction
make_persistent_atomic_guarded(flag) ==
  /\ acall.pc = "idle"
  /\ acall' = [pc |-> IF stage = TX_STAGE_WORK THEN "idle" ELSE "xalloc",
               fn |-> "make_persistent_atomic",
               stage |-> stage, flag |-> flag, arg |-> aptr,
               used |-> Allocated(heap), obj |-> NullPtr, ret |-> 0,
               res |-> IF stage = TX_STAGE_WORK
                       THEN "transaction_scope_error" ELSE "none"]
  /\ aevents' = <<>>
  /\ UNCHANGED <<aptr, heap, txVars, exceptMa>>

\* entry of make_persistent_atomic(pool, ptr, flag, args...); acall.stage
\* remembers the stage the call was made in, acall.arg what ptr held and
\* acall.used the blocks that were allocated
make_persistent_atomic(flag) ==
  /\ acall.pc = "idle"
  /\ acall' = [pc |-> "xalloc", fn |-> "make_persistent_atomic",
               stage |-> stage, flag |-> flag, arg |-> aptr,
               used |-> Allocated(heap), obj |-> NullPtr, ret |-> 0,
               res |-> "none"]
  /\ aevents' = <<>>
  /\ UNCHANGED <<aptr, heap, txVars, exceptMa>>

\* the overload without a flag forwards allocation_flag_atomic::none()
make_persistent_atomic_noflag == make_persistent_atomic("none")

\* pmemobj_xalloc, first part: a free block is reserved for the object, or
\* the call fails with nothing reserved
xalloc_reserve ==
  /\ acall.pc = "xalloc"
  /\ aevents' = Append(aevents, Event("pmemobj_xalloc", 0, NullPtr))
  /\ \/ \E p \in Ptrs :
          /\ heap[p].st = "free"
          /\ heap' = [heap EXCEPT ![p] = [st |-> "reserved", obj |-> "none",
                                          tx |-> FALSE]]
          /\ acall' = [acall EXCEPT !.pc = "construct", !.obj = p]
     \/ /\ acall' = [acall EXCEPT !.pc = "ret", !.ret = -1]
        /\ UNCHANGED heap
  /\ UNCHANGED <<aptr, txVars, exceptMa>>

\* pmemobj_xalloc calls detail::obj_constructor on the reserved block: the
\* object's constructor starts writing the block
xalloc_construct ==
  /\ acall.pc = "construct"
  /\ heap' = [heap EXCEPT ![acall.obj].obj = "partial"]
  /\ acall' = [acall EXCEPT !.pc = "constructing"]
  /\ UNCHANGED <<aptr, aevents, txVars, exceptMa>>

\* the constructor finishes, or throws: obj_constructor then returns a
\* non-zero status and pmemobj_xalloc cancels the reservation
xalloc_constructed ==
  /\ acall.pc = "constructing"
  /\ \E ok \in BOOLEAN :
       IF ok
       THEN /\ heap' = [heap EXCEPT ![acall.obj].obj = "full"]
            /\ acall' = [acall EXCEPT !.pc = "publish"]
       ELSE /\ heap' = [heap EXCEPT ![acall.obj] = FreeBlock]
            /\ acall' = [acall EXCEPT !.pc = "ret", !.ret = -1,
                                      !.obj = NullPtr]
  /\ UNCHANGED <<aptr, aevents, txVars, exceptMa>>

\* pmemobj_xalloc, last part: in one failure-atomic step the block becomes
\* allocated and its address is written to *ptr.raw_ptr()
xalloc_publish ==
  /\ acall.pc = "publish"
  /\ heap' = [heap EXCEPT ![acall.obj].st = "allocated"]
  /\ aptr' = acall.obj
  /\ acall' = [acall EXCEPT !.pc = "ret", !.ret = 0]
  /\ UNCHANGED <<aevents, txVars, exceptMa>>

\* a make_persistent_atomic that lets every status pass
mpa_result_ignored(ret) == "returned"

\* if (ret != 0) throw std::bad_alloc()
mpa_result(ret) == IF ret # 0 THEN "bad_alloc" ELSE "returned"

mpa_return ==
  /\ acall.pc = "ret"
  /\ acall' = [acall EXCEPT !.pc = "idle", !.res = mpa_result(acall.ret)]
  /\ UNCHANGED <<aptr, aevents, heap, txVars, exceptMa>>

\* entry of delete_persistent_atomic(ptr)
delete_persistent_atomic ==
  /\ acall.pc = "idle"
  /\ acall' = [pc |-> "null_check", fn |-> "delete_persistent_atomic",
               stage |-> stage, flag |-> "none", arg |-> aptr,
               used |-> Allocated(heap), obj |-> NullPtr, ret |-> 0,
               res |-> "none"]
  /\ aevents' = <<>>
  /\ UNCHANGED <<aptr, heap, txVars, exceptMa>>

\* a null test that lets every pointer through
dpa_is_null_never(p) == FALSE

\* ptr == nullptr
dpa_is_null(p) == p = NullPtr

\* if (ptr == nullptr) return
dpa_null_check ==
  /\ acall.pc = "null_check"
  /\ IF dpa_is_null(aptr)
     THEN acall' = [acall EXCEPT !.pc = "idle", !.res = "returned"]
     ELSE acall' = [acall EXCEPT !.pc = "free"]
  /\ UNCHANGED <<aptr, aevents, heap, txVars, exceptMa>>

\* pmemobj_free(ptr.raw_ptr()): in one failure-atomic step the block is
\* freed and *ptr.raw_ptr() set to null; no destructor is called, and the
\* function is noexcept
dpa_free ==
  /\ acall.pc = "free"
  /\ aevents' = Append(aevents, Event("pmemobj_free", 0, aptr))
  /\ heap' = [p \in Ptrs |-> IF p = aptr THEN FreeBlock ELSE heap[p]]
  /\ aptr' = NullPtr
  /\ acall' = [acall EXCEPT !.pc = "idle", !.res = "returned"]
  /\ UNCHANGED <<txVars, exceptMa>>

\* what the heap is when the pool is opened again after a crash: a
\* reservation that was not published is gone
heap_recover(h) ==
  [p \in Ptrs |-> IF h[p].st = "reserved" THEN FreeBlock ELSE h[p]]

\* the process dies inside a call made outside of any transaction, and the
\* pool is opened again
crash ==
  /\ acall.pc # "idle"
  /\ stage = TX_STAGE_NONE
  /\ heap' = heap_recover(heap)
  /\ acall' = [acall EXCEPT !.pc = "idle", !.res = "crashed"]
  /\ UNCHANGED <<aptr, aevents, txVars, exceptMa>>

\* an allocation made by the transaction (pmemobj_tx_xalloc and the
\* constructor, in stage WORK): recorded for the rollback
pmemobj_tx_xalloc(p) ==
  /\ acall.pc = "idle"
  /\ stage = TX_STAGE_WORK
  /\ heap[p].st = "free"
  /\ heap' = [heap EXCEPT ![p] = [st |-> "allocated", obj |-> "full",
                                  tx |-> TRUE]]
  /\ UNCHANGED <<maVars, txVars, exceptMa>>

\* the thread's transaction scopes, between its calls
MaTx ==
  /\ acall.pc = "idle"
  /\ \/ tx_begin({})
     \/ tx_commit
     \/ tx_abort
     \/ tx_end

MaStep ==
  \/ \E f \in AtomicFlags : make_persistent_atomic(f)
  \/ make_persistent_atomic_noflag
  \/ xalloc_reserve
  \/ xalloc_construct
  \/ xalloc_constructed
  \/ xalloc_publish
  \/ mpa_return
  \/ delete_persistent_atomic
  \/ dpa_null_check
  \/ dpa_free
  \/ crash
  \/ \E p \in Ptrs : pmemobj_tx_xalloc(p)
  \/ MaTx

(***************************************************************************)
(* Specification of the transaction thread and the observer.               *)
(***************************************************************************)
InitTx ==
  /\ stage = TX_STAGE_NONE
  /\ depth = 0
  /\ txLocks = [l \in Locks |-> 0]
  /\ relCount = [l \in Locks |-> 0]

InitCall ==
  /\ pc = "idle"
  /\ call = NoCall
  /\ events = <<>>
  /\ outcome = NoOutcome

InitRW ==
  /\ rwlock = [l \in Locks |-> LockFree]
  /\ mode = [t \in Threads |-> [l \in Locks |-> "none"]]
  /\ res = [t \in Threads |-> "none"]
  /\ nat = [t \in Threads |-> NoNative]

InitCV ==
  /\ mtx = [m \in Mutexes |-> NoThread]
  /\ waiters = {}
  /\ cv = [t \in WakeThreads |-> CvState("out", "none")]
  /\ ready = FALSE
  /\ now = 0

InitCtor ==
  /\ pools = {}
  /\ handle = [k \in Kinds |-> [a \in Addresses |-> "garbage"]]
  /\ ctor = NoCtor

InitTp ==
  /\ base = 32
  /\ word = [c \in CellPos |-> nullptr_offset]
  /\ from = [c \in CellPos |-> Built("default", 0)]

\* constexpr atomic() noexcept = default
InitAt ==
  /\ slot = nullptr_offset
  /\ gen = 0
  /\ wins = {}
  /\ at = [t \in AtThreads |-> AtIdle(nullptr, 0, NoAnn, "none")]

InitMa ==
  /\ heap = [p \in Ptrs |-> FreeBlock]
  /\ aptr = NullPtr
  /\ acall = NoAtomicCall
  /\ aevents = <<>>

InitSz == arr = NoArray

Init ==
  /\ InitTx /\ InitCall /\ InitRW /\ InitCV /\ InitCtor /\ InitTp /\ InitAt
  /\ InitMa /\ InitSz

Next == AllocStep \/ TxStep \/ ObserverStep

Spec == Init /\ [][Next]_vars

(***************************************************************************)
(* The transaction thread and the observer alone, with the fairness of a   *)
(* running thread: a scope that can be left is eventually left.            *)
(***************************************************************************)
TxNext == TxStep \/ ObserverStep

FairTxSpec == Init /\ [][TxNext]_vars /\ WF_vars(tx_end)

(***************************************************************************)
(* Threads sharing one shared_mutex.                                       *)
(***************************************************************************)
TheLock == "L1"

RWNext ==
  \E t \in RWThreads :
    \/ shared_mutex_lock(t, TheLock)
    \/ shared_mutex_lock_shared(t, TheLock)
    \/ shared_mutex_try_lock(t, TheLock)
    \/ shared_mutex_try_lock_shared(t, TheLock)
    \/ shared_mutex_unlock(t, TheLock)
    \/ shared_mutex_unlock_shared(t, TheLock)

SpecRW == Init /\ [][RWNext]_vars

(***************************************************************************)
(* Array requests of every element size and every accepted count.          *)
(***************************************************************************)
SpecSize == Init /\ [][SizeStep]_vars

(***************************************************************************)
(* A caller that keeps the pointer of its array in a variable, in and out  *)
(* of transactions.                                                        *)
(***************************************************************************)
CallerNext ==
  \/ CallerStep
  \/ tx_begin({})
  \/ tx_commit
  \/ tx_abort
  \/ tx_end

SpecCaller == Init /\ [][CallerNext]_vars

(***************************************************************************)
(* Threads sharing one condition_variable and its mutex.                   *)
(***************************************************************************)
SpecCV == Init /\ [][CVStep]_vars

\* the same with running threads: a thread inside a wait call takes its
\* next step, a blocked thread whose deadline has passed is woken, a thread
\* does not keep the mutex for ever, and a woken thread that tries to take
\* the mutex again gets it if it is free again and again
FairSpecCV ==
  /\ SpecCV
  /\ \A t \in CVThreads :
       /\ WF_vars(pred_check(t))
       /\ WF_vars(native_wait_enter(t))
       /\ WF_vars(timeout_wakeup(t))
       /\ SF_vars(mutex_unlock(t))
       /\ SF_vars(native_wait_return(t))

(***************************************************************************)
(* Three threads on one condition_variable, with predicate waits and       *)
(* notifications only: any of them may wait, change the predicate under    *)
(* the mutex, or notify.                                                   *)
(***************************************************************************)
WakeNext ==
  \E t \in WakeThreads :
    \/ mutex_lock(t)
    \/ mutex_unlock(t)
    \/ set_ready(t)
    \/ notify_one(t)
    \/ notify_all(t)
    \/ wait_pred(t)
    \/ pred_check(t)
    \/ native_wait_enter(t)
    \/ spurious_wakeup(t)
    \/ native_wait_return(t)

SpecWake == Init /\ [][WakeNext]_vars

\* running threads, as in FairSpecCV; nothing obliges a thread to notify
\* and nothing obliges a blocked thread to wake spuriously
FairSpecWake ==
  /\ SpecWake
  /\ \A t \in WakeThreads :
       /\ WF_vars(pred_check(t))
       /\ WF_vars(native_wait_enter(t))
       /\ SF_vars(mutex_unlock(t))
       /\ SF_vars(native_wait_return(t))

(***************************************************************************)
(* Threads sharing one shared_mutex over which the constructor is run      *)
(* again.                                                                  *)
(***************************************************************************)
ReconNext == RWNext \/ shared_mutex_reconstruct(TheLock)

SpecRecon == Init /\ [][ReconNext]_vars

(***************************************************************************)
(* Constructions of locks and condition variables at addresses inside and  *)
(* outside the open pools.                                                 *)
(***************************************************************************)
SpecCtor == Init /\ [][CtorStep]_vars

(***************************************************************************)
(* Tagged pointers of one region built, copied, swapped and relocated.     *)
(***************************************************************************)
SpecTp == Init /\ [][TpStep]_vars

(***************************************************************************)
(* Threads using one atomic tagged_ptr: with store and load, and with load *)
(* and compare-and-swap.                                                   *)
(***************************************************************************)
SpecAt == Init /\ [][AtStep]_vars

SpecCas == Init /\ [][CasStep]_vars

(***************************************************************************)
(* One thread using the non-transactional allocation path, inside and      *)
(* outside of transactions, with crashes.                                  *)
(***************************************************************************)
SpecMa == Init /\ [][MaStep]_vars

(***************************************************************************)
(* Claims about the allocation protocol.                                   *)
(***************************************************************************)
IsPrefix(a, b) ==
  /\ Len(a) <= Len(b)
  /\ \A k \in 1..Len(a) : a[k] = b[k]

InMake == call.fn = "make_persistent"
InDelete == call.fn = "delete_persistent"
Finished == pc = "idle" /\ call.fn # "none"

\* C1: a call of make_persistent or delete_persistent made in any stage
\* other than WORK ends with transaction_scope_error, returns no pointer,
\* and has called neither the allocator nor a constructor nor a destructor
\* at any point of its run; for delete_persistent whatever the pointer is,
\* null included.
C1_ScopeErrorBeforeAnyCall ==
  ((InMake \/ InDelete) /\ call.stage # TX_STAGE_WORK) =>
    /\ events = <<>>
    /\ pc \in {"mp_stage", "dp_stage", "idle"}
    /\ pc = "idle" => outcome = [kind |-> "transaction_scope_error",
                                 ptr |-> NullPtr]

C1_Witness ==
  /\ Finished
  /\ InDelete
  /\ call.ptr = NullPtr
  /\ call.stage = TX_STAGE_ONABORT
  /\ outcome.kind = "transaction_scope_error"

\* the calls delete_persistent(p, n) makes when it runs to its end
ExpectedDelete(p, n) ==
  [k \in 1..(n + 1) |->
     IF k <= n THEN Event("destroy", n - k, p)
     ELSE Event("pmemobj_tx_free", 0, p)]

\* C2: delete_persistent in stage WORK on a non-null array of N elements
\* destroys element N-1, then N-2, ..., then 0, each once, and then calls
\* pmemobj_tx_free once: at every point of the run the calls made so far
\* are a prefix of that sequence, and at the end they are all of it.
C2_ReverseDestroyThenFree ==
  (InDelete /\ call.stage = TX_STAGE_WORK /\ call.ptr # NullPtr) =>
    /\ IsPrefix(events, ExpectedDelete(call.ptr, call.N))
    /\ pc = "idle" => events = ExpectedDelete(call.ptr, call.N)

C2_Witness ==
  /\ Finished
  /\ InDelete
  /\ call.stage = TX_STAGE_WORK
  /\ call.ptr # NullPtr
  /\ call.N >= 2
  /\ outcome.kind = "returned"
  /\ Len(events) = call.N + 1

\* C3: make_persistent in stage WORK calls pmemobj_tx_xalloc exactly once,
\* as its first call; constructors run only once that call has returned
\* storage, on that storage, for the indices 0, 1, 2, ... in this order;
\* it returns, with the pointer the allocator gave, only after N of them.
C3_AllocOnceThenCreateInOrder ==
  (InMake /\ call.stage = TX_STAGE_WORK /\ pc # "mp_stage") =>
    /\ pc # "mp_xalloc" =>
         /\ Len(events) >= 1
         /\ events[1] = Event("pmemobj_tx_xalloc", call.N, NullPtr)
    /\ \A k \in 2..Len(events) :
         /\ events[k].op \in {"create", "create_throws"}
         /\ events[k].i = k - 2
         /\ call.ptr # NullPtr
         /\ events[k].p = call.ptr
    /\ outcome.kind = "returned" =>
         /\ Len(events) = call.N + 1
         /\ \A k \in 2..Len(events) : events[k].op = "create"
         /\ outcome.ptr = call.ptr
         /\ call.ptr \in Ptrs

C3_Witness ==
  /\ Finished
  /\ InMake
  /\ call.N >= 2
  /\ outcome.kind = "returned"
  /\ outcome.ptr \in Ptrs
  /\ Len(events) = call.N + 1

\* C4: when the constructor of element i throws, make_persistent ends
\* there with that exception: the throwing constructor is its last call,
\* the elements 0..i-1 built before it are not destroyed, and the storage
\* is not freed by make_persistent.
C4_NoCleanupOnCtorFailure ==
  InMake =>
    /\ \A k \in 1..Len(events) :
         /\ events[k].op \notin {"destroy", "pmemobj_tx_free"}
         /\ events[k].op = "create_throws" =>
              /\ k = Len(events)
              /\ pc = "idle"
              /\ outcome = [kind |-> "constructor_exception",
                            ptr |-> NullPtr]
    /\ outcome.kind = "constructor_exception" =>
         /\ Len(events) >= 2
         /\ events[Len(events)].op = "create_throws"
         /\ \A k \in 2..(Len(events) - 1) : events[k].op = "create"

C4_Witness ==
  /\ Finished
  /\ InMake
  /\ outcome.kind = "constructor_exception"
  /\ Len(events) = 3
  /\ events[2].op = "create"
  /\ events[3].op = "create_throws"

\* C5: when pmemobj_tx_xalloc returns null, make_persistent ends with
\* transaction_out_of_memory if errno is ENOMEM and with
\* transaction_alloc_error for every other errno; no constructor has run
\* and no pointer is returned.
C5_AllocFailureKind ==
  (InMake /\ call.errno # "none") =>
    /\ pc = "idle"
    /\ call.ptr = NullPtr
    /\ outcome.ptr = NullPtr
    /\ outcome.kind = IF call.errno = "ENOMEM"
                      THEN "transaction_out_of_memory"
                      ELSE "transaction_alloc_error"
    /\ events = <<Event("pmemobj_tx_xalloc", call.N, NullPtr)>>

C5_Witness ==
  /\ Finished
  /\ InMake
  /\ call.errno = "ENOMEM"
  /\ call.N >= 1
  /\ outcome.kind = "transaction_out_of_memory"

(***************************************************************************)
(* Claims about the transaction's locks.                                   *)
(***************************************************************************)
HeldByTx(l) == rwlock[l].writer = TxThread \/ TxThread \in rwlock[l].readers

\* C6: whenever the stage is ONABORT, no lock the transaction registered
\* is still held by it: each is free or already taken by another thread,
\* so a try_lock of another thread on it is not refused because of the
\* failed attempt.
C6_LocksReleasedInRecovery ==
  stage = TX_STAGE_ONABORT =>
    \A l \in Registered :
      /\ ~HeldByTx(l)
      /\ CanWrlock(rwlock[l]) \/ rwlock[l].writer = Observer

C6_Witness ==
  /\ stage = TX_STAGE_ONABORT
  /\ \E l \in Registered :
       /\ relCount[l] = 1
       /\ rwlock[l].writer = Observer
       /\ mode[Observer][l] = "exclusive"
       /\ res[Observer] = "true"

ExclusiveAlone ==
  \A t \in RWThreads :
    /\ mode[t][TheLock] = "exclusive" =>
         /\ rwlock[TheLock].writer = t
         /\ \A u \in RWThreads \ {t} : mode[u][TheLock] = "none"
    /\ mode[t][TheLock] = "shared" =>
         /\ t \in rwlock[TheLock].readers
         /\ rwlock[TheLock].writer = NoThread

\* C9: no state has a thread holding the shared_mutex exclusively while
\* any other thread holds it, exclusively or shared (the exclusive holder
\* is the native writer, the shared holders are the native readers); and
\* a step in which a thread becomes the exclusive holder starts from a
\* state in which no thread holds the lock, so every shared holder has
\* called unlock_shared before it.
C9_ExclusiveExcludesAll ==
  /\ []ExclusiveAlone
  /\ [][\A t \in RWThreads :
          (mode[t][TheLock] # "exclusive" /\ mode'[t][TheLock] = "exclusive")
            => \A u \in RWThreads : mode[u][TheLock] = "none"]_vars

C9_Witness ==
  \E t \in RWThreads :
    /\ res[t] = "false"
    /\ mode[t][TheLock] = "none"
    /\ \A u \in RWThreads \ {t} : mode[u][TheLock] = "shared"

(***************************************************************************)
(* Claims about condition_variable.                                        *)
(***************************************************************************)
\* C10: in every wait variant the caller's mutex is released in the very
\* step in which the thread blocks (a thread is on the condition
\* variable's waiter list exactly while it is blocked, it holds the mutex
\* up to that step and never while blocked or woken, so other threads can
\* take it), the native wait is handed the caller's own mutex, and the
\* thread holds that mutex again whenever a wait has returned, with a
\* timeout result as with any other.
C10_WaitReleasesAndReacquires ==
  \A t \in CVThreads :
    /\ t \in waiters <=> cv[t].pc = "suspended"
    /\ cv[t].pc \in {"suspended", "woken"} =>
         (mtx[TheMutex] # t /\ cv[t].h = TheMutex)
    /\ cv[t].pc \in {"in", "pred", "enter"} => mtx[TheMutex] = t

C10_Witness ==
  \E t \in CVThreads, u \in CVThreads :
    /\ cv[t].pc = "suspended"
    /\ cv[t].fn = "wait_pred"
    /\ cv[u].pc = "in"
    /\ cv[u].res = "timeout"
    /\ mtx[TheMutex] = u

\* C11: a call of wait(lock, pred) begins by evaluating pred; it ends only
\* in a step that evaluates pred to true while the caller holds the mutex
\* (or with lock_error thrown by the native wait); evaluating pred to true
\* always ends it, with no wait; and waking from the native wait, by a
\* notification or spuriously, only leads to the next evaluation of pred.
C11_PredWaitReturnsOnTruePred ==
  [][\A t \in CVThreads :
       LET s == cv[t]
           s2 == cv'[t]
       IN /\ (s.fn # "wait_pred" /\ s2.fn = "wait_pred") => s2.pc = "pred"
          /\ (s.fn = "wait_pred" /\ s2.fn # "wait_pred") =>
               \/ /\ s.pc = "pred"
                  /\ ready
                  /\ mtx[TheMutex] = t
                  /\ mtx'[TheMutex] = t
                  /\ s2.pc = "in"
                  /\ s2.res = "returned"
               \/ /\ s.pc = "enter"
                  /\ s2.res = "lock_error"
          /\ (s.fn = "wait_pred" /\ s.pc = "pred" /\ ready /\ s2 # s) =>
               (s2.pc = "in" /\ s2.res = "returned")
          /\ (s.fn = "wait_pred" /\ s.pc = "pred" /\ ~ready /\ s2 # s) =>
               s2.pc = "enter"
          /\ (s.fn = "wait_pred" /\ s.pc = "woken" /\ s2 # s) =>
               (s2.pc = "pred" /\ s2.fn = "wait_pred")]_vars

\* a thread that waited in wait(lock, pred) and was woken evaluates pred
\* again and finds it false
C11_Witness ==
  \E t \in CVThreads :
    /\ cv[t].fn = "wait_pred"
    /\ cv[t].pc = "pred"
    /\ cv[t].h = TheMutex
    /\ ~ready
    /\ mtx[TheMutex] = t

\* C12: a call of wait_until / wait_for with a predicate ends with false
\* only in the step that follows a native wait that returned ETIMEDOUT and
\* evaluates pred to false; it ends with true only in a step that evaluates
\* pred to true (the test of the loop, or the evaluation after a timeout);
\* the only other way out is lock_error thrown by the native wait.
C12_TimedPredResultIsLastPred ==
  [][\A t \in CVThreads :
       LET s == cv[t]
           s2 == cv'[t]
       IN (s.fn \in {"wait_until_pred", "wait_for_pred"} /\ s2.fn # s.fn) =>
            /\ s2.pc = "in"
            /\ \/ /\ s2.res = "false"
                  /\ s.pc = "woken"
                  /\ s.ret = "ETIMEDOUT"
                  /\ ~ready
               \/ /\ s2.res = "true"
                  /\ ready
                  /\ \/ s.pc = "pred"
                     \/ s.pc = "woken" /\ s.ret = "ETIMEDOUT"
               \/ /\ s2.res = "lock_error"
                  /\ s.pc = "enter"]_vars

\* a timed predicate wait has returned false: it timed out and found the
\* predicate false
C12_Witness ==
  \E t \in CVThreads :
    /\ cv[t].pc = "in"
    /\ cv[t].res = "false"
    /\ mtx[TheMutex] = t
    /\ ~ready

\* C13: when a timed wait makes its native call, the deadline it hands
\* over is the system clock's now plus (abs_timeout - the caller's now),
\* whatever the offset between the clocks; if abs_timeout is already past
\* on the caller's clock the thread never joins the waiters: the native
\* wait reports ETIMEDOUT at once, and wait_until / wait_for then return
\* cv_status::timeout.
C13_PastDeadlineTimesOut ==
  [][\A t \in CVThreads :
       LET s == cv[t]
           s2 == cv'[t]
       IN /\ (s.pc = "enter" /\ s.fn \in TimedFns
                /\ s2.pc \in {"suspended", "woken"}) =>
               /\ s2.ts = now + (s.abs - (now + s.off))
               /\ s.abs < now + s.off =>
                    /\ s2.pc = "woken"
                    /\ s2.ret = "ETIMEDOUT"
                    /\ t \notin waiters'
          /\ (s.pc = "woken" /\ s.fn \in {"wait_until", "wait_for"}
                /\ s.ret = "ETIMEDOUT" /\ s2 # s) =>
               (s2.pc = "in" /\ s2.res = "timeout")]_vars

\* wait_until with a deadline past on a caller's clock that is ahead of
\* the system clock: the native wait has returned ETIMEDOUT with no wait
C13_Witness ==
  \E t \in CVThreads :
    /\ cv[t].fn = "wait_until"
    /\ cv[t].off > 0
    /\ cv[t].pc = "woken"
    /\ cv[t].ret = "ETIMEDOUT"
    /\ cv[t].abs < now + cv[t].off
    /\ cv[t].ts = now - 1
    /\ waiters = {}

TryFns == {"pmemobj_rwlock_trywrlock", "pmemobj_rwlock_tryrdlock"}

\* the value of the last try call of every thread follows the status of
\* its native call, and a try call can be made whatever the lock's state
TryResultFollowsStatus ==
  \A t \in RWThreads :
    /\ nat[t].fn \in TryFns =>
         /\ res[t] = "true" <=> nat[t].ret = "0"
         /\ res[t] = "false" <=> nat[t].ret = "EBUSY"
         /\ res[t] = "lock_error" <=> nat[t].ret \notin {"0", "EBUSY"}
    /\ mode[t][TheLock] = "none" =>
         /\ ENABLED shared_mutex_try_lock(t, TheLock)
         /\ ENABLED shared_mutex_try_lock_shared(t, TheLock)

\* C14: try_lock and try_lock_shared can always be called and complete in
\* one step; they return true exactly when the native call returned 0, and
\* the caller then holds the lock (exclusively / shared); they return false
\* exactly when it returned EBUSY, and throw lock_error for every other
\* status; in both of these cases the lock and what every thread holds are
\* as before the call.
C14_TryLockThreeWay ==
  /\ []TryResultFollowsStatus
  /\ [][\A t \in RWThreads :
          (nat'[t] # nat[t] /\ nat'[t].fn \in TryFns) =>
            IF nat'[t].ret = "0"
            THEN /\ res'[t] = "true"
                 /\ mode[t][TheLock] = "none"
                 /\ IF nat'[t].fn = "pmemobj_rwlock_trywrlock"
                    THEN /\ mode'[t][TheLock] = "exclusive"
                         /\ rwlock'[TheLock].writer = t
                    ELSE /\ mode'[t][TheLock] = "shared"
                         /\ t \in rwlock'[TheLock].readers
            ELSE /\ rwlock' = rwlock
                 /\ mode' = mode
                 /\ res'[t] = IF nat'[t].ret = "EBUSY" THEN "false"
                              ELSE "lock_error"]_vars

\* try_lock returned false, without blocking, while two other threads hold
\* the lock shared
C14_Witness ==
  \E t \in RWThreads :
    /\ nat[t] = [fn |-> "pmemobj_rwlock_trywrlock", ret |-> "EBUSY"]
    /\ res[t] = "false"
    /\ mode[t][TheLock] = "none"
    /\ \A u \in RWThreads \ {t} : mode[u][TheLock] = "shared"

\* C15: a constructor call made on an address that lies in no open pool
\* ends with lock_error and leaves every native handle as it was (the
\* handle at that address is not zeroed); one made on an address in an
\* open pool succeeds and has zeroed the handle at that address, and only
\* that one; a handle at an address that is in no pool's mapping is never
\* zeroed.
C15_CtorOutsidePoolFails ==
  /\ [](\A k \in Kinds, a \in Addresses :
          MappedIn(a) = NoPool => handle[k][a] = "garbage")
  /\ [][ctor' # ctor =>
          LET k == ctor'.kind
              a == ctor'.addr
          IN IF pmemobj_pool_by_ptr(a) = NoPool
             THEN /\ ctor'.res = "lock_error"
                  /\ handle' = handle
             ELSE /\ ctor'.res = "constructed"
                  /\ handle' = [handle EXCEPT ![k][a] = "zeroed"]]_vars

\* a condition_variable constructed in a pool that was closed afterwards:
\* the construction at the same address fails, the handle, scribbled
\* since, is left as it is
C15_Witness ==
  /\ ctor = [kind |-> "condition_variable", addr |-> "a1",
             res |-> "lock_error"]
  /\ handle["condition_variable"]["a1"] = "garbage"
  /\ handle["shared_mutex"]["a2"] = "zeroed"
  /\ pools = {"pool2"}

(***************************************************************************)
(* Claims about tagged pointers.                                           *)
(***************************************************************************)
\* the address, now, of the object a tagged_ptr was built from
TargetNow(c) == base + from[c].pos

Aligned2(a) == a % 2 = 0

\* what C16 says of the tagged_ptr at c, when built from a P1 target
OfP1(c) == is_P1(c) /\ get_P1(c) = TargetNow(c) /\ ~is_P2(c)

\* what C16 says of the tagged_ptr at c, when built from a P2 target
OfP2(c) == is_P2(c) /\ get_P2(c) = TargetNow(c) /\ ~is_P1(c)

NullBuilt(c) == from[c].kind \in {"default", "nullptr"}

\* C17: a tagged_ptr default-constructed, or constructed or assigned from
\* nullptr, is<P2> with get<P2>() null and converts to false, at every
\* position and every base of the region; any two of them compare equal.
C17_NullResolvesNullAnywhere ==
  \A c \in CellPos :
    NullBuilt(c) =>
      /\ is_P2(c)
      /\ get_P2(c) = nullptr
      /\ ~operator_bool(c)
      /\ \A d \in CellPos : NullBuilt(d) => operator_eq(c, d)

\* a default-constructed tagged_ptr and one built from nullptr, at two
\* addresses of a region that is not where it was first mapped
C17_Witness ==
  /\ base = 96
  /\ from[0].kind = "default"
  /\ from[8].kind = "nullptr"
  /\ operator_eq(0, 8)
  /\ ~operator_bool(8)

\* C20: when the region is copied to another base, every tagged_ptr in it
\* that was built from a target resolves to the address at the same
\* distance from the new base as before from the old one; one that stores
\* the plain relative pointer to its target (built from a P2 target at
\* position k) resolves to the new base + k; and a tagged_ptr keeps its
\* kind and the position of its target.
C20_RelocationRoundTrip ==
  [][base' # base =>
       \A c \in CellPos :
         from[c].kind \in {"P1", "P2"} =>
           /\ to_void_pointer(c)' - base' = to_void_pointer(c) - base
           /\ from[c].kind = "P2" => get_P2(c)' = base' + from[c].pos
           /\ is_P1(c)' = is_P1(c)
           /\ get_P1(c)' - base' = get_P1(c) - base]_vars

\* a region mapped at another base than at first, holding a tagged_ptr to
\* a P1 object and one to a P2 object, both resolving into the region
C20_Witness ==
  /\ base = 64
  /\ from[0] = Built("P1", 16)
  /\ from[8] = Built("P2", 20)
  /\ is_P1(0)
  /\ get_P1(0) = 64 + 16
  /\ get_P2(8) = 64 + 20

(***************************************************************************)
(* Claims about the atomic tagged pointer.                                 *)
(***************************************************************************)
Winners(g) == {t \in AtThreads : <<g, t>> \in wins}

\* every value the atomic has held but the current one was replaced by
\* exactly one successful compare-and-swap, the current one by none yet
OneWinnerPerGeneration ==
  /\ \A g \in 0..(gen - 1) : Cardinality(Winners(g)) = 1
  /\ \A g \in gen..(MaxGen + 1) : Winners(g) = {}

C19_AnnotationsPairUp ==
  /\ [](\A t \in AtThreads :
          at[t].ann.kind = "happens_after" => at[t].ann.addr = MemberPtr)
  /\ [][\A t \in AtThreads :
          /\ (at[t].pc = "storing" /\ at'[t].pc = "idle") =>
               at[t].ann = [kind |-> "happens_before", addr |-> MemberPtr]
          /\ (at'[t].ann.kind = "happens_after"
                /\ at[t].ann.kind # "happens_after") =>
               at[t].pc = "loaded"]_vars

\* the tagged_ptr at c holds a pointer of the kind to the address a
HoldsKind(c, kind, a) == from[c].kind = kind /\ TargetNow(c) = a

\* the raw pointers a tagged_ptr is compared with: the addresses of the
\* objects of each kind
RawP1 == {base + k : k \in K1Pos}
RawP2 == {base + k : k \in K2Pos}

\* C21 as stated, for the comparisons the class has and tagged_ptr objects
\* built from 2-byte aligned targets: a tagged_ptr compares equal to a raw
\* P1 pointer exactly when it holds a P1 pointer to that address, and
\* compares unequal to a raw P2 pointer exactly when it does not hold a P2
\* pointer to that address.
C21_RawComparison ==
  \A c \in CellPos :
    (from[c].kind \in {"P1", "P2"} /\ Aligned2(TargetNow(c))) =>
      /\ \A a \in RawP1 : operator_eq_P1(c, a) <=> HoldsKind(c, "P1", a)
      /\ \A a \in RawP2 : operator_ne_P2(c, a) <=> ~HoldsKind(c, "P2", a)

(***************************************************************************)
(* Claims about the non-transactional allocation path.                     *)
(***************************************************************************)
\* the step that ends a call of fn
AtomicCallEnds(fn) ==
  acall.fn = fn /\ acall.pc # "idle" /\ acall'.pc = "idle"

\* a block that holds a published, fully constructed object
FullObject == [st |-> "allocated", obj |-> "full", tx |-> FALSE]

\* nothing of the call is left: the destination and the allocated blocks
\* are what they were when the call was made, and no block is reserved
NothingLeft ==
  /\ aptr' = acall.arg
  /\ Allocated(heap') = acall.used
  /\ \A p \in Ptrs : heap'[p].st # "reserved" /\ heap'[p].obj # "partial"

\* the whole effect of the call is there: the destination refers to a newly
\* allocated block that holds a fully constructed object
AllThere ==
  /\ aptr' \in Ptrs \ acall.used
  /\ aptr' = acall.obj
  /\ Allocated(heap') = acall.used \cup {aptr'}
  /\ heap'[aptr'] = FullObject
  /\ \A p \in Ptrs : heap'[p].st # "reserved" /\ heap'[p].obj # "partial"

\* C22: make_persistent_atomic makes one pmemobj_xalloc call; when that
\* call reports 0 it returns with the destination referring to a fully
\* constructed object; when it reports a non-zero status it throws
\* bad_alloc and nothing of the call is left; when a crash ends the call,
\* either the whole effect is there or nothing is.
C22_AtomicAllocAllOrNothing ==
  [][AtomicCallEnds("make_persistent_atomic") =>
       /\ Len(aevents') <= 1
       /\ \A i \in 1..Len(aevents') : aevents'[i].op = "pmemobj_xalloc"
       /\ acall'.res \in {"returned", "bad_alloc", "crashed"}
       /\ acall'.res = "returned" =>
            (acall.ret = 0 /\ Len(aevents') = 1 /\ AllThere)
       /\ acall'.res = "bad_alloc" =>
            (acall.ret # 0 /\ Len(aevents') = 1 /\ NothingLeft)
       /\ (acall'.res # "crashed" /\ acall.ret # 0) =>
            acall'.res = "bad_alloc"
       /\ acall'.res = "crashed" => (AllThere \/ NothingLeft)]_vars

\* the constructor threw inside pmemobj_xalloc while the destination held
\* an earlier object: bad_alloc, the destination still refers to that
\* object and the block that had been reserved is free again
C22_Witness ==
  /\ acall.fn = "make_persistent_atomic"
  /\ acall.pc = "idle"
  /\ acall.res = "bad_alloc"
  /\ acall.arg \in Ptrs
  /\ aptr = acall.arg
  /\ \E p \in Ptrs : heap[p] = FreeBlock
  /\ Len(aevents) = 1

\* C23: delete_persistent_atomic never throws and never runs a destructor;
\* with a null pointer it makes no allocator call and changes nothing, with
\* a non-null pointer it makes exactly one pmemobj_free call, for the
\* storage the pointer refers to.
C23_AtomicFreeNoDestructor ==
  [][AtomicCallEnds("delete_persistent_atomic") =>
       /\ acall'.res \in {"returned", "crashed"}
       /\ \A i \in 1..Len(aevents') : aevents'[i].op = "pmemobj_free"
       /\ acall'.res = "returned" =>
            IF acall.arg = NullPtr
            THEN aevents' = <<>> /\ heap' = heap /\ aptr' = aptr
            ELSE /\ aevents' = <<Event("pmemobj_free", 0, acall.arg)>>
                 /\ heap'[acall.arg] = FreeBlock]_vars

\* a call with a pointer to an allocated object has returned: one
\* pmemobj_free call, the block is free
C23_Witness ==
  /\ acall.fn = "delete_persistent_atomic"
  /\ acall.pc = "idle"
  /\ acall.res = "returned"
  /\ acall.arg \in Ptrs
  /\ aevents = <<Event("pmemobj_free", 0, acall.arg)>>
  /\ heap[acall.arg] = FreeBlock

(***************************************************************************)
(* More claims about delete_persistent.                                    *)
(***************************************************************************)
\* C24: the step of delete_persistent that tests the stage and the pointer,
\* taken in stage WORK with a null pointer, ends the call: it returns
\* normally, no destructor and no pmemobj_tx_free has been called, and the
\* transaction is as it was, in stage WORK.
C24_DeleteNullIsNoOp ==
  [][(pc = "dp_stage" /\ pc' # "dp_stage"
        /\ stage = TX_STAGE_WORK /\ call.ptr = NullPtr) =>
       /\ pc' = "idle"
       /\ outcome' = [kind |-> "returned", ptr |-> NullPtr]
       /\ events' = <<>>
       /\ stage' = TX_STAGE_WORK
       /\ UNCHANGED <<txVars, rwVars, heap>>]_vars

\* a call for MaxN elements with a null pointer has returned in stage WORK
C24_Witness ==
  /\ Finished /\ InDelete
  /\ call.ptr = NullPtr
  /\ call.N = MaxN
  /\ call.stage = TX_STAGE_WORK
  /\ stage = TX_STAGE_WORK
  /\ outcome.kind = "returned"
  /\ events = <<>>

\* C25: the step of delete_persistent that calls pmemobj_tx_free ends the
\* call; it throws transaction_free_error exactly when pmemobj_tx_free
\* reports a failure; pmemobj_tx_free has been called once, after the N
\* destructors, which have all run, and nothing has been called after it.
C25_FreeErrorSurfaces ==
  [][(pc = "dp_free" /\ pc' # "dp_free") =>
       /\ pc' = "idle"
       /\ call'.ret \in {"ok", "fail"}
       /\ call'.ret = "fail" <=> outcome'.kind = "transaction_free_error"
       /\ call'.ret = "ok" <=> outcome'.kind = "returned"
       /\ events' = ExpectedDelete(call.ptr, call.N)]_vars

\* pmemobj_tx_free has failed after the MaxN destructors of a call ran
C25_Witness ==
  /\ Finished /\ InDelete
  /\ call.N = MaxN
  /\ call.ret = "fail"
  /\ outcome.kind = "transaction_free_error"
  /\ Len(events) = MaxN + 1
  /\ events[MaxN].op = "destroy"
  /\ events[MaxN + 1].op = "pmemobj_tx_free"

(***************************************************************************)
(* Claims about the reconstruction of a lock.                              *)
(***************************************************************************)
\* C26 as stated, for the shared_mutex: when the constructor is run again
\* over a lock, the threads that held it before still hold it after, and
\* no others.
C26_ReconstructionKeepsHolders ==
  [][shared_mutex_reconstruct(TheLock) =>
       rwlock'[TheLock] = rwlock[TheLock]]_vars

(***************************************************************************)
(* Claims about the non-transactional path inside transactions.            *)
(***************************************************************************)
\* a call of the non-transactional path that has ended, and not by a crash
AtomicCallDone(fn) ==
  acall.fn = fn /\ acall.pc = "idle" /\ acall.res # "crashed"

\* C27: whatever the stage a call was made in, make_persistent_atomic has
\* called pmemobj_xalloc once and ended as that call's status says, and
\* delete_persistent_atomic with a non-null pointer has called pmemobj_free
\* once and returned: no call is refused.  The abort of a transaction
\* leaves the caller's pointer, the object it refers to and every block
\* that is free as they are: what a call of this path did is not undone.
C27_NoStageGuard ==
  /\ [](AtomicCallDone("make_persistent_atomic") =>
          /\ Len(aevents) = 1
          /\ aevents[1].op = "pmemobj_xalloc"
          /\ acall.res \in {"returned", "bad_alloc"}
          /\ acall.res = "returned" <=> acall.ret = 0)
  /\ [](AtomicCallDone("delete_persistent_atomic") =>
          /\ acall.res = "returned"
          /\ acall.arg # NullPtr =>
               aevents = <<Event("pmemobj_free", 0, acall.arg)>>)
  /\ [](aptr # NullPtr => heap[aptr] = FullObject)
  /\ [][(stage = TX_STAGE_WORK /\ stage' = TX_STAGE_ONABORT) =>
          /\ aptr' = aptr
          /\ aptr # NullPtr => heap'[aptr] = heap[aptr]
          /\ \A p \in Ptrs : heap[p].st = "free" => heap'[p].st = "free"]_vars

\* a call of make_persistent_atomic made in stage WORK has returned, the
\* transaction has aborted, and the object of the call is still there
C27_Witness ==
  /\ AtomicCallDone("make_persistent_atomic")
  /\ acall.stage = TX_STAGE_WORK
  /\ acall.res = "returned"
  /\ stage = TX_STAGE_ONABORT
  /\ aptr = acall.obj
  /\ heap[aptr] = FullObject
  /\ \E p \in Ptrs : p # aptr /\ heap[p] = FreeBlock

(***************************************************************************)
(* Claims about the caller's pointer.                                      *)
(***************************************************************************)
\* C28: no step of a delete_persistent call writes the variable the caller
\* passed; when the call returns after pmemobj_tx_free succeeded, the
\* variable holds the address of the freed array; it changes only by the
\* caller's own assignments, made between calls.
C28_DeleteKeepsCallersPointer ==
  [][/\ (InDelete /\ pc # "idle") => aptr' = aptr
     /\ (pc = "dp_free" /\ pc' = "idle" /\ outcome'.kind = "returned") =>
          (aptr' = call.ptr /\ aptr' \in Ptrs)
     /\ aptr' # aptr =>
          (pc = "idle" /\ pc' = "idle" /\ UNCHANGED callVars)]_vars

\* delete_persistent has freed the array of MaxN elements and returned; the
\* caller's variable still holds its address
C28_Witness ==
  /\ Finished /\ InDelete
  /\ call.N = MaxN
  /\ outcome.kind = "returned"
  /\ call.ret = "ok"
  /\ aptr \in Ptrs
  /\ aptr = call.ptr
  /\ events[Len(events)] = Event("pmemobj_tx_free", 0, aptr)

(***************************************************************************)
(* Claims about the size of an array request.                              *)
(***************************************************************************)
\* the bytes element k of the array occupies lie in the storage
ElementInside(k) == (k + 1) * arr.size <= arr.bytes

\* C29 as stated: for every accepted N the byte count asked of the
\* allocator is sizeof(I) times N, and every element constructed lies
\* inside the storage that was allocated.
C29_RequestCoversElements ==
  arr.pc # "none" =>
    /\ arr.bytes = arr.size * arr.N
    /\ \A k \in 0..(arr.i - 1) : ElementInside(k)

(***************************************************************************)
(* Claims about the end of a timed wait.                                   *)
(***************************************************************************)
TimedPredFns == {"wait_until_pred", "wait_for_pred"}

\* t is inside wait_until / wait_for with a predicate
InTimedPredWait(t) == cv[t].fn \in TimedPredFns

\* the deadline of t's call, on the system clock, has been reached
DeadlinePassed(t) == now >= cv[t].abs - cv[t].off

\* C30: inside a call of wait_until / wait_for with a predicate the
\* deadline does not change, and every native wait of the call, the first
\* and those made after a wakeup, is given that deadline on the system
\* clock; with running threads and a mutex that is not kept for ever, a
\* call whose deadline has passed ends with false (or with lock_error
\* thrown by the native wait), unless the predicate becomes true.
C30_TimedPredWaitEnds ==
  /\ [][\A t \in CVThreads :
          LET s == cv[t]
              s2 == cv'[t]
          IN (s.fn \in TimedPredFns /\ s2.fn = s.fn) =>
               /\ s2.abs = s.abs
               /\ s2.off = s.off
               /\ (s.pc = "enter" /\ s2.pc \in {"suspended", "woken"}) =>
                    s2.ts = s.abs - s.off]_vars
  /\ \A t \in CVThreads :
       (InTimedPredWait(t) /\ DeadlinePassed(t)) ~>
         \/ ready
         \/ cv[t].pc = "in" /\ cv[t].res \in {"false", "lock_error"}

\* a thread is blocked in the native wait of a timed predicate wait, its
\* deadline has just passed, the predicate is false and another thread
\* holds the mutex
C30_Witness ==
  \E t \in CVThreads :
    /\ InTimedPredWait(t)
    /\ cv[t].pc = "suspended"
    /\ cv[t].ts = now
    /\ DeadlinePassed(t)
    /\ ~ready
    /\ mtx[TheMutex] \notin {t, NoThread}

(***************************************************************************)
(* C31  No lost wakeup for wait(lock, pred).  A thread between its         *)
(* predicate check and its suspension holds the mutex and the predicate    *)
(* is false, so nobody can make the predicate true in that window; a       *)
(* notify_all that succeeds takes every suspended thread out of the        *)
(* native wait, and so does a notify_one that succeeds with a single       *)
(* waiter; and a thread inside wait(lock, pred) that is not suspended      *)
(* while the predicate is true ends its call (it returns, or the native    *)
(* wait fails with lock_error) unless the predicate becomes false again.   *)
(***************************************************************************)
InWaitPred(t) == cv[t].fn = "wait_pred"

WaitPredEnded(t) ==
  /\ cv[t].pc = "in"
  /\ cv[t].fn = "none"
  /\ cv[t].res \in {"returned", "lock_error"}

C31_NoLostWakeup ==
  /\ [](\A t \in WakeThreads :
          InWaitPred(t) /\ cv[t].pc = "enter"
            => mtx[TheMutex] = t /\ ~ready)
  /\ [][\A n \in WakeThreads :
          notify_all(n) /\ cv'[n].res = "notified"
            => /\ waiters' = {}
               /\ \A t \in WakeThreads :
                    cv[t].pc = "suspended" => cv'[t].pc = "woken"]_vars
  /\ [][\A n \in WakeThreads :
          notify_one(n) /\ cv'[n].res = "notified"
                        /\ Cardinality(waiters) = 1
            => /\ waiters' = {}
               /\ \A t \in waiters : cv'[t].pc = "woken"]_vars
  /\ \A t \in WakeThreads :
       (InWaitPred(t) /\ ready /\ t \notin waiters)
         ~> (~ready \/ WaitPredEnded(t))

\* the predicate is true, one thread has notified, and the two others are
\* inside wait(lock, pred), both woken out of the native wait
C31_Witness ==
  /\ ready
  /\ \E n \in WakeThreads :
       /\ cv[n].res = "notified"
       /\ \A t \in WakeThreads \ {n} :
            InWaitPred(t) /\ cv[t].pc = "woken" /\ cv[t].ret = "0"

\* C32 as stated: for a tagged_ptr built in any way, operator bool is false
\* exactly when the tagged_ptr compares equal (operator==) to a tagged_ptr
\* constructed from nullptr.
C32_NullNotionsAgree ==
  \A c \in CellPos, d \in CellPos :
    from[d].kind = "nullptr" => (~operator_bool(c) <=> operator_eq(c, d))
====
